---- MODULE Spec2Model ----
(***************************************************************************)
(* A model of the ragforge question-answering and ingestion pipeline:      *)
(* ask() and ingest() of ragforge/rag.py, the retrieval strategies, the    *)
(* provider registry's singleton of the graph store and the vector store's *)
(* add_texts/search.                                                       *)
(*                                                                         *)
(* Text is modelled as a sequence of tokens.  The tokens that the code     *)
(* looks at character by character are kept apart: "ws" is whitespace,     *)
(* "fence" is the three-backquote fence, "json" is the word json (so that  *)
(* the 7 characters of a fence followed by json are two tokens), and       *)
(* every other token is one lexical unit of the response: a piece of text  *)
(* that is not JSON, or one complete JSON value.                           *)
(*                                                                         *)
(* Three components have a specification of their own over the same        *)
(* variables: GraphSpec is the Neo4j graph store (ragforge/graph/           *)
(* neo4j_store.py) query by query, ChunkSpec the chunking loop             *)
(* (strategies/chunking.py) and GroqSpec the retry loop of                 *)
(* GroqLLM.generate_response (llm/groq.py).                                *)
(***************************************************************************)
EXTENDS Integers, Sequences, FiniteSets, TLC

\* ------------------------------------------------------------------ bounds
MaxStore == 2       \* records the vector store may hold
MaxBatch == 2       \* texts in one ingest call
MaxChunks == 2      \* largest settings.max_context_chunks explored (>= 1)

\* ------------------------------------------------------------- text model
WS == "ws"
FENCE == "fence"
JSONWORD == "json"

\* One complete JSON value each: objects by their keys, arrays by their
\* elements, strings by their content.
JsonTokens ==
    { "obj{facts,answer}", "obj{facts,answer,note}", "obj{facts}", "obj{answer}",
      "obj{}", "arr[facts,answer]", "arr[]", "str(facts answer)", "num" }

\* What "facts" in v and "answer" in v give for the parsed value v:
\* key membership for a dict, element membership for a list, substring test
\* for a str, TypeError for a number.
JsonValue(tok) ==
    CASE tok = "obj{facts,answer}"      -> [type |-> "dict", has |-> {"facts", "answer"}, keys |-> {"facts", "answer"}]
      [] tok = "obj{facts,answer,note}" -> [type |-> "dict", has |-> {"facts", "answer"}, keys |-> {"facts", "answer", "note"}]
      [] tok = "obj{facts}"             -> [type |-> "dict", has |-> {"facts"}, keys |-> {"facts"}]
      [] tok = "obj{answer}"            -> [type |-> "dict", has |-> {"answer"}, keys |-> {"answer"}]
      [] tok = "obj{}"                  -> [type |-> "dict", has |-> {}, keys |-> {}]
      [] tok = "arr[facts,answer]"      -> [type |-> "list", has |-> {"facts", "answer"}, keys |-> {}]
      [] tok = "arr[]"                  -> [type |-> "list", has |-> {}, keys |-> {}]
      [] tok = "str(facts answer)"      -> [type |-> "str", has |-> {"facts", "answer"}, keys |-> {}]
      [] OTHER                          -> [type |-> "number", has |-> {}, keys |-> {}]

\* str.strip(): drop leading and trailing whitespace.
RECURSIVE LStrip(_)
LStrip(s) == IF s # <<>> /\ Head(s) = WS THEN LStrip(Tail(s)) ELSE s

RECURSIVE RStrip(_)
RStrip(s) == IF s # <<>> /\ s[Len(s)] = WS THEN RStrip(SubSeq(s, 1, Len(s) - 1)) ELSE s

Strip(s) == RStrip(LStrip(s))

StartsWith(s, p) == Len(s) >= Len(p) /\ SubSeq(s, 1, Len(p)) = p

EndsWith(s, p) == Len(s) >= Len(p) /\ SubSeq(s, Len(s) - Len(p) + 1, Len(s)) = p

DropFirst(s, n) == SubSeq(s, n + 1, Len(s))

DropLast(s, n) == SubSeq(s, 1, Len(s) - n)

\* The three consecutive ifs that remove a markdown code fence.
StripFence(raw) ==
    LET c0 == Strip(raw)
        c1 == IF StartsWith(c0, <<FENCE, JSONWORD>>) THEN DropFirst(c0, 2) ELSE c0
        c2 == IF StartsWith(c1, <<FENCE>>) THEN DropFirst(c1, 1) ELSE c1
        c3 == IF EndsWith(c2, <<FENCE>>) THEN DropLast(c2, 1) ELSE c2
    IN c3

\* json.loads: whitespace around the value is accepted; anything but exactly
\* one JSON value raises JSONDecodeError.
JsonLoads(s) ==
    LET t == Strip(s)
    IN IF Len(t) = 1 /\ t[1] \in JsonTokens
       THEN [ok |-> TRUE, value |-> JsonValue(t[1])]
       ELSE [ok |-> FALSE, value |-> [type |-> "none", has |-> {}, keys |-> {}]]


\* LLM responses explored: every JSON value and a text that is not JSON,
\* bare, padded with whitespace, fenced, and fenced in broken ways.
TextTokens == { "not json" }

Wrappers ==
    { [pre |-> <<>>,                    post |-> <<>>],
      [pre |-> <<WS>>,                  post |-> <<WS>>],
      [pre |-> <<FENCE, JSONWORD, WS>>, post |-> <<WS, FENCE>>],
      [pre |-> <<WS, FENCE>>,           post |-> <<FENCE, WS>>],
      [pre |-> <<FENCE, JSONWORD>>,     post |-> <<>>],
      [pre |-> <<JSONWORD>>,            post |-> <<>>] }

Responses ==
    { w.pre \o <<t>> \o w.post : w \in Wrappers, t \in JsonTokens \cup TextTokens }
    \cup { <<>>, <<FENCE>> }

\* ------------------------------------------------------------- ask results
NOT_FOUND == <<"I could not find any relevant information in the knowledge base to answer your question.">>
UNEXPECTED == <<"An unexpected system error occurred.">>
ErrorMessage(e) == <<"An error occurred while processing your request: ", e>>

RagforgeErrors ==
    { "ConfigurationError", "ProviderError", "RetrievalError", "IngestionError", "GraphError" }

\* The dict literals {"facts": ..., "answer": ...} that ask builds itself.
FactsAnswer(facts, answer) ==
    [type |-> "dict", keys |-> {"facts", "answer"}, facts |-> facts, answer |-> answer]

\* A value parsed from the LLM response and returned as it is.
Parsed(v) ==
    [type |-> v.type, keys |-> v.keys,
     facts |-> IF "facts" \in v.keys THEN <<"facts of the LLM">> ELSE <<>>,
     answer |-> IF "answer" \in v.keys THEN <<"answer of the LLM">> ELSE <<>>]

NoResult == [type |-> "none", keys |-> {}, facts |-> <<>>, answer |-> <<>>]

\* The two outer handlers of ask: except RagforgeError, except Exception.
AskCatch(exc) ==
    IF exc \in RagforgeErrors THEN FactsAnswer(<<>>, ErrorMessage(exc))
    ELSE FactsAnswer(<<>>, UNEXPECTED)

\* The inner try block of ask: what it returns, or the exception that
\* leaves it.  Only json.JSONDecodeError is handled by the inner except.
ParseResponse(raw) ==
    LET parsed == JsonLoads(StripFence(raw))
        v == parsed.value
    IN IF ~parsed.ok THEN [exc |-> "JSONDecodeError", ret |-> NoResult]
       ELSE IF v.type = "number" THEN [exc |-> "TypeError", ret |-> NoResult]
       ELSE IF "facts" \notin v.has \/ "answer" \notin v.has
            THEN [exc |-> "ValueError", ret |-> NoResult]
       ELSE [exc |-> "none", ret |-> Parsed(v)]

\* A variant that falls back to the cleaned text instead of the raw response.
AnswerFromResponse_Cleaned(raw) ==
    LET r == ParseResponse(raw)
    IN IF r.exc = "none" THEN r.ret
       ELSE IF r.exc = "JSONDecodeError" THEN FactsAnswer(<<>>, StripFence(raw))
       ELSE AskCatch(r.exc)

\* ask from the LLM call on: the response is parsed, a JSONDecodeError
\* falls back to the raw response, any other exception reaches the outer
\* handlers.
AnswerFromResponse(raw) ==
    LET r == ParseResponse(raw)
    IN IF r.exc = "none" THEN r.ret
       ELSE IF r.exc = "JSONDecodeError" THEN FactsAnswer(<<>>, raw)
       ELSE AskCatch(r.exc)


\* ------------------------------------------------------------ vector store
Texts == { "alpha", " " }          \* " " is a text that is blank after strip()
Metas == { "m1" }                  \* a metadata value; "none" is the empty dict
NoMetadatas == [given |-> FALSE, list |-> <<>>]

SeqsUpTo(S, n) == UNION { [1..k -> S] : k \in 0..n }

IsBlank(text) == text = " "

\* VectorStore.add_texts: nothing for an empty list, a ValueError for a
\* metadatas list of another length, else one record per text is upserted
\* (vout is what the embedding and the upsert do).
AddTexts(store, texts, metadatas, vout) ==
    IF texts = <<>> THEN [raised |-> "none", store |-> store, wrote |-> FALSE]
    ELSE IF metadatas.given /\ Len(metadatas.list) # Len(texts)
         THEN [raised |-> "ValueError", store |-> store, wrote |-> FALSE]
    ELSE IF vout # "ok" THEN [raised |-> "IngestionError", store |-> store, wrote |-> FALSE]
    ELSE [raised |-> "none",
          store |-> store \o [i \in 1..Len(texts) |->
                                [text |-> texts[i],
                                 meta |-> IF metadatas.given THEN metadatas.list[i] ELSE "none"]],
          wrote |-> TRUE]

MatchesFilter(rec, filt) == filt = "None" \/ rec.meta = filt

Min(a, b) == IF a <= b THEN a ELSE b

\* A variant that ignores the limit.
Search_NoLimit(store, limit, filt) ==
    LET hits == SelectSeq(store, LAMBDA rec : MatchesFilter(rec, filt))
    IN [i \in 1..Len(hits) |-> hits[i].text]

\* VectorStore.search: the texts of the (at most limit) best hits among the
\* records that match the filter; the ranking of the model is the order of
\* the store.
Search(store, limit, filt) ==
    LET hits == SelectSeq(store, LAMBDA rec : MatchesFilter(rec, filt))
    IN [i \in 1..Min(limit, Len(hits)) |-> hits[i].text]

\* ------------------------------------------------------------- graph store
\* GraphStore.__init__: no driver when GraphRAG is disabled, a
\* ConfigurationError without a password, a GraphError when the server
\* cannot be reached, else a connected driver.
GraphStoreInit(graphCfg, net) ==
    IF graphCfg = "disabled" THEN [raised |-> "none", inst |-> "nodriver"]
    ELSE IF graphCfg = "no_password" THEN [raised |-> "ConfigurationError", inst |-> "absent"]
    ELSE IF net = "down" THEN [raised |-> "GraphError", inst |-> "absent"]
    ELSE [raised |-> "none", inst |-> "connected"]

\* GraphStoreRegistry.get_provider(use_singleton=True): the instance is
\* constructed on first use and cached only when the constructor returns.
GetGraphStore(inst, graphCfg, net) ==
    IF inst = "absent" THEN GraphStoreInit(graphCfg, net)
    ELSE [raised |-> "none", inst |-> inst]

\* is_available(): only a connected store is available.
IsAvailable(inst) == inst = "connected"

GRAPH_PREFIX == "[Graph Context] "
GraphEntry(ctx) == <<GRAPH_PREFIX, ctx>>

\* GraphStore.get_graph_context on a connected store: the entities of the
\* query are extracted with the LLM, the graph is read, and the context (or
\* "") is returned; the interface allows a GraphError.
GetGraphContext(gout) ==
    [raised |-> IF gout = "GraphError" THEN "GraphError" ELSE "none",
     context |-> IF gout = "GraphError" THEN "" ELSE gout,
     events |-> <<"llm:extract", "graph_read">>]

\* ----------------------------------------------------- retrieval strategies
\* A retrieved entry is <<text>> for a vector hit and <<prefix, context>> for
\* the graph entry.
VectorEntries(texts) == [i \in 1..Len(texts) |-> <<texts[i]>>]

\* VectorOnlyRetrievalStrategy.retrieve
VectorOnlyRetrieve(store, limit, filt, vout) ==
    IF vout # "ok" THEN [raised |-> "RetrievalError", docs |-> <<>>, events |-> <<"vec_search">>]
    ELSE [raised |-> "none", docs |-> VectorEntries(Search(store, limit, filt)),
          events |-> <<"vec_search">>]

\* A variant that puts the graph entry in front of the vector results.
HybridRetrieve_GraphFirst(store, gstore, limit, filt, vout, gout) ==
    IF vout # "ok" THEN [raised |-> "RetrievalError", docs |-> <<>>, events |-> <<"vec_search">>]
    ELSE LET results == VectorEntries(Search(store, limit, filt))
             g == GetGraphContext(gout)
         IN IF gstore # "None" /\ IsAvailable(gstore)
            THEN [raised |-> "none",
                  docs |-> IF g.raised = "none" /\ g.context # ""
                           THEN <<GraphEntry(g.context)>> \o results ELSE results,
                  events |-> <<"vec_search">> \o g.events]
            ELSE [raised |-> "none", docs |-> results, events |-> <<"vec_search">>]

\* HybridRetrievalStrategy.retrieve: gstore is "None" or the state of the
\* graph store passed in; gout is what get_graph_context does when called
\* ("" for no context, a context, or a GraphError).
HybridRetrieve(store, gstore, limit, filt, vout, gout) ==
    IF vout # "ok" THEN [raised |-> "RetrievalError", docs |-> <<>>, events |-> <<"vec_search">>]
    ELSE LET results == VectorEntries(Search(store, limit, filt))
             g == GetGraphContext(gout)
         IN IF gstore # "None" /\ IsAvailable(gstore)
            THEN [raised |-> "none",
                  docs |-> IF g.raised = "none" /\ g.context # ""
                           THEN Append(results, GraphEntry(g.context)) ELSE results,
                  events |-> <<"vec_search">> \o g.events]
            ELSE [raised |-> "none", docs |-> results, events |-> <<"vec_search">>]

\* GraphStore.add_document_to_graph on a connected store, for one text:
\* extraction with the LLM, then the merge of what was extracted (nothing is
\* written when nothing was extracted); any failure is a GraphError.
AddDocumentToGraph(docs, text, aout) ==
    IF aout = "GraphError"
    THEN [raised |-> "GraphError", docs |-> docs, events |-> <<"llm:extract">>]
    ELSE IF aout = "nothing"
    THEN [raised |-> "none", docs |-> docs, events |-> <<"llm:extract">>]
    ELSE [raised |-> "none", docs |-> docs \cup {text},
          events |-> <<"llm:extract", "graph_write">>]

AddOutcomes == { "ok", "nothing", "GraphError" }

\* The for loop of ingest over the texts, from index i on: blank texts are
\* skipped, the first GraphError ends the loop.
RECURSIVE GraphLoop(_, _, _, _, _)
GraphLoop(texts, aouts, i, docs, events) ==
    IF i > Len(texts) THEN [raised |-> "none", docs |-> docs, events |-> events]
    ELSE IF IsBlank(texts[i]) THEN GraphLoop(texts, aouts, i + 1, docs, events)
    ELSE LET r == AddDocumentToGraph(docs, texts[i], aouts[i])
         IN IF r.raised # "none"
            THEN [raised |-> r.raised, docs |-> r.docs, events |-> events \o r.events]
            ELSE GraphLoop(texts, aouts, i + 1, r.docs, events \o r.events)

\* -------------------------------------------------------------------- state
VARIABLES
    settings,    \* [graph, max_context_chunks]: fixed when the process starts
    graphInst,   \* the graph store singleton: "absent", "nodriver", "connected"
    vecStore,    \* the records of the vector store, in ranking order
    graphDocs,   \* the texts this process merged into the graph (the graph
                 \* database is external and may hold more than that)
    pc,          \* "idle", "ask_generate", "ingest_graph", "returned"
    call,        \* the locals of the call in progress (kept until Return)
    last,        \* the outcome of the call once it has returned or raised
    log,         \* the effects of the call on the stores and the LLM, in order
    kg,          \* the knowledge graph and the graph-store call in progress
    chunker,     \* the locals of the chunking loop in progress
    groq,        \* the locals of GroqLLM.generate_response in progress
    reg,         \* the provider registries and the get_provider calls in progress
    qd,          \* the Qdrant collection and the vector-store call in progress
    dirs,        \* the locals of ingest_from_directory in progress
    race,        \* the graph under two concurrent add_document_to_graph calls
    ctx          \* a stored graph and the get_graph_context call on it

vars == <<settings, graphInst, vecStore, graphDocs, pc, call, last, log>>

\* The components that ask and ingest do not step: each has its own
\* specification below and stays parked under the others.
components == <<kg, chunker, groq, reg, qd, dirs, race, ctx>>
Parked == [pc |-> "parked"]
allvars ==
    <<settings, graphInst, vecStore, graphDocs, pc, call, last, log,
      kg, chunker, groq, reg, qd, dirs, race, ctx>>

UseGraphArgs == { "None", "True", "False" }
StrategyArgs == { "None", "vector_only", "hybrid", "unknown" }
FilterArgs == { "None" } \cup Metas
VectorOutcomes == { "ok", "fails" }
NetOutcomes == { "up", "down" }
ContextOutcomes == { "", "Graph Context: ...", "GraphError" }
GraphConfigs == { "disabled", "no_password", "configured" }

\* settings.retrieval_strategy when ask is given no strategy name.
DefaultStrategy == "hybrid"

NoCall ==
    [op |-> "none", ug |-> "None", useGraph |-> FALSE, strategy |-> "none",
     filt |-> "None", gstore |-> "None", vout |-> "ok", gout |-> "",
     retrieved |-> FALSE, docs |-> <<>>, empty |-> FALSE, prompted |-> FALSE,
     texts |-> <<>>, metadatas |-> NoMetadatas, wrote |-> FALSE, graphFailure |-> "none"]

NoLast == [op |-> "none", raised |-> "none", ret |-> NoResult, responded |-> FALSE, raw |-> <<>>]

Init ==
    /\ settings \in [graph : GraphConfigs, max_context_chunks : 1..MaxChunks]
    /\ graphInst = "absent"
    /\ vecStore = <<>>
    /\ graphDocs = {}
    /\ pc = "idle"
    /\ call = NoCall
    /\ last = NoLast
    /\ log = <<>>
    /\ kg = Parked
    /\ chunker = Parked
    /\ groq = Parked
    /\ reg = Parked
    /\ qd = Parked
    /\ dirs = Parked
    /\ race = Parked
    /\ ctx = Parked


\* ---------------------------------------------------------------------- ask
ResolveStrategy(sn) ==
    LET name == IF sn = "None" THEN DefaultStrategy ELSE sn
    IN IF name = "vector_only" THEN "vector_only" ELSE "hybrid"

\* ask up to the return of strategy.retrieve: use_graph is resolved (the
\* graph store is looked up when use_graphrag is None), the strategy is
\* chosen, the stores are fetched and the strategy retrieves.  exc is the
\* exception that ends this part, if one does.
AskRetrieval(inst, cfg, store, ug, sn, filt, net, vout, gout) ==
    LET r1 == IF ug = "None" THEN GetGraphStore(inst, cfg.graph, net)
              ELSE [raised |-> "none", inst |-> inst]
        useGraph == IF ug = "None" THEN IsAvailable(r1.inst) ELSE ug = "True"
        strategy == ResolveStrategy(sn)
        r2 == IF useGraph THEN GetGraphStore(r1.inst, cfg.graph, net)
              ELSE [raised |-> "none", inst |-> r1.inst]
        gstore == IF useGraph THEN r2.inst ELSE "None"
        got == IF strategy = "vector_only"
               THEN VectorOnlyRetrieve(store, cfg.max_context_chunks, filt, vout)
               ELSE HybridRetrieve(store, gstore, cfg.max_context_chunks, filt, vout, gout)
        base == [inst |-> r1.inst, exc |-> r1.raised, useGraph |-> FALSE, strategy |-> "none",
                 gstore |-> "None", retrieved |-> FALSE, docs |-> <<>>, events |-> <<>>]
    IN IF r1.raised # "none" THEN base
       ELSE IF r2.raised # "none"
            THEN [base EXCEPT !.inst = r2.inst, !.exc = r2.raised, !.useGraph = useGraph,
                              !.strategy = strategy]
       ELSE [inst |-> r2.inst, exc |-> got.raised, useGraph |-> useGraph,
             strategy |-> strategy, gstore |-> gstore, retrieved |-> got.raised = "none",
             docs |-> got.docs, events |-> got.events]

\* A variant without the "if not retrieved_docs" return.
AfterRetrieval_NoEmptyCheck(exc, docs) ==
    IF exc # "none" THEN "error" ELSE "generate"

\* What ask does with the outcome of the retrieval: an exception goes to the
\* handlers, "if not retrieved_docs" returns the fixed answer, else the LLM
\* is asked.
AfterRetrieval(exc, docs) ==
    IF exc # "none" THEN "error"
    ELSE IF docs = <<>> THEN "not_found"
    ELSE "generate"

\* ask, first part: retrieval.  It returns the error answer when an
\* exception was raised and the fixed answer when nothing was retrieved;
\* otherwise the call goes on to the LLM.
AskRetrieve(ug, sn, filt, net, vout, gout) ==
    /\ UNCHANGED components
    /\ pc = "idle"
    /\ LET r == AskRetrieval(graphInst, settings, vecStore, ug, sn, filt, net, vout, gout)
       IN /\ graphInst' = r.inst
          /\ call' = [NoCall EXCEPT !.op = "ask", !.ug = ug, !.useGraph = r.useGraph,
                                    !.strategy = r.strategy, !.filt = filt,
                                    !.gstore = r.gstore, !.vout = vout, !.gout = gout,
                                    !.retrieved = r.retrieved, !.docs = r.docs,
                                    !.empty = (r.retrieved /\ r.docs = <<>>)]
          /\ log' = r.events
          /\ LET then == AfterRetrieval(r.exc, r.docs)
             IN IF then = "error"
                THEN /\ pc' = "returned"
                     /\ last' = [NoLast EXCEPT !.op = "ask", !.ret = AskCatch(r.exc)]
                ELSE IF then = "not_found"
                THEN /\ pc' = "returned"
                     /\ last' = [NoLast EXCEPT !.op = "ask",
                                                !.ret = FactsAnswer(<<>>, NOT_FOUND)]
                ELSE /\ pc' = "ask_generate"
                     /\ last' = NoLast
    /\ UNCHANGED <<settings, vecStore, graphDocs>>

\* What the LLM call of ask can do: fail (get_default_llm or
\* generate_response raise a ProviderError or a ConfigurationError) or
\* return a text.
LLMFailures == { "ProviderError", "ConfigurationError" }

AskAnswer(failure, raw) ==
    IF failure # "none" THEN AskCatch(failure) ELSE AnswerFromResponse(raw)

\* ask, second part: the prompt is built from the retrieved entries, the
\* LLM is called and its response is parsed.  The locals of the retrieval
\* are dead once the prompt is built and are dropped from call.
AskGenerateFails(failure) ==
    /\ UNCHANGED components
    /\ pc = "ask_generate"
    /\ pc' = "returned"
    /\ last' = [NoLast EXCEPT !.op = "ask", !.ret = AskAnswer(failure, <<>>)]
    /\ log' = Append(log, "llm:answer")
    /\ call' = [NoCall EXCEPT !.op = "ask", !.retrieved = TRUE, !.empty = call.empty,
                              !.prompted = TRUE]
    /\ UNCHANGED <<settings, graphInst, vecStore, graphDocs>>

AskGenerate(raw) ==
    /\ UNCHANGED components
    /\ pc = "ask_generate"
    /\ pc' = "returned"
    /\ last' = [NoLast EXCEPT !.op = "ask", !.ret = AskAnswer("none", raw),
                              !.responded = TRUE, !.raw = raw]
    /\ log' = Append(log, "llm:answer")
    /\ call' = [NoCall EXCEPT !.op = "ask", !.retrieved = TRUE, !.empty = call.empty,
                              !.prompted = TRUE]
    /\ UNCHANGED <<settings, graphInst, vecStore, graphDocs>>


\* ------------------------------------------------------------------- ingest
MetadataArgs ==
    { NoMetadatas } \cup { [given |-> TRUE, list |-> m] : m \in SeqsUpTo(Metas, MaxBatch) }

\* A variant that swallows a failure of add_texts and goes on.
IngestVectorPart_SwallowWriteFailure(inst, cfg, store, texts, metadatas, ug, net, vout) ==
    LET r1 == IF ug = "None" THEN GetGraphStore(inst, cfg.graph, net)
              ELSE [raised |-> "none", inst |-> inst]
        useGraph == IF ug = "None" THEN IsAvailable(r1.inst) ELSE ug = "True"
        w == AddTexts(store, texts, metadatas, vout)
    IN IF r1.raised # "none"
       THEN [inst |-> r1.inst, raised |-> r1.raised, useGraph |-> FALSE, store |-> store,
             wrote |-> FALSE, events |-> <<>>]
       ELSE [inst |-> r1.inst, raised |-> "none", useGraph |-> useGraph, store |-> w.store,
             wrote |-> w.wrote, events |-> IF w.wrote THEN <<"vec_write">> ELSE <<>>]

\* ingest up to the return of add_texts: use_graph is resolved (the graph
\* store is looked up when use_graphrag is None), then the texts are written
\* to the vector store.
IngestVectorPart(inst, cfg, store, texts, metadatas, ug, net, vout) ==
    LET r1 == IF ug = "None" THEN GetGraphStore(inst, cfg.graph, net)
              ELSE [raised |-> "none", inst |-> inst]
        useGraph == IF ug = "None" THEN IsAvailable(r1.inst) ELSE ug = "True"
        w == AddTexts(store, texts, metadatas, vout)
    IN IF r1.raised # "none"
       THEN [inst |-> r1.inst, raised |-> r1.raised, useGraph |-> FALSE, store |-> store,
             wrote |-> FALSE, events |-> <<>>]
       ELSE [inst |-> r1.inst, raised |-> w.raised, useGraph |-> useGraph, store |-> w.store,
             wrote |-> w.wrote, events |-> IF w.wrote THEN <<"vec_write">> ELSE <<>>]

\* ingest, first part: the vector store ingestion.  An exception leaves
\* ingest; otherwise the graph construction follows when use_graph is set.
IngestVector(texts, metadatas, ug, net, vout) ==
    /\ UNCHANGED components
    /\ pc = "idle"
    /\ Len(vecStore) + Len(texts) <= MaxStore
    /\ LET r == IngestVectorPart(graphInst, settings, vecStore, texts, metadatas, ug, net, vout)
       IN /\ graphInst' = r.inst
          /\ vecStore' = r.store
          /\ log' = r.events
          /\ call' = [NoCall EXCEPT !.op = "ingest", !.ug = ug, !.useGraph = r.useGraph,
                                    !.texts = texts, !.metadatas = metadatas,
                                    !.wrote = r.wrote, !.vout = vout]
          /\ IF r.raised # "none" \/ ~r.useGraph
             THEN /\ pc' = "returned"
                  /\ last' = [NoLast EXCEPT !.op = "ingest", !.raised = r.raised]
             ELSE /\ pc' = "ingest_graph"
                  /\ last' = NoLast
    /\ UNCHANGED <<settings, graphDocs>>

\* The graph construction of ingest: the try block with its
\* except Exception: pass.  raised is what leaves ingest, failure is the
\* call whose exception the handler caught.
IngestGraphPart(inst, cfg, docs, texts, net, aouts) ==
    LET r2 == GetGraphStore(inst, cfg.graph, net)
        loop == GraphLoop(texts, aouts, 1, docs, <<>>)
    IN IF r2.raised # "none"
       THEN [inst |-> r2.inst, raised |-> "none", docs |-> docs, events |-> <<>>,
             failure |-> "get_graph_store"]
       ELSE IF ~IsAvailable(r2.inst)
       THEN [inst |-> r2.inst, raised |-> "none", docs |-> docs, events |-> <<>>,
             failure |-> "none"]
       ELSE [inst |-> r2.inst, raised |-> "none", docs |-> loop.docs, events |-> loop.events,
             failure |-> IF loop.raised # "none" THEN "add_document_to_graph" ELSE "none"]

\* ingest, second part: the graph construction, then ingest returns.
IngestGraph(net, aouts) ==
    /\ UNCHANGED components
    /\ pc = "ingest_graph"
    /\ aouts \in [1..Len(call.texts) -> AddOutcomes]
    /\ LET r == IngestGraphPart(graphInst, settings, graphDocs, call.texts, net, aouts)
       IN /\ graphInst' = r.inst
          /\ graphDocs' = r.docs
          /\ log' = log \o r.events
          /\ call' = [call EXCEPT !.graphFailure = r.failure]
          /\ last' = [NoLast EXCEPT !.op = "ingest", !.raised = r.raised]
          /\ pc' = "returned"
    /\ UNCHANGED <<settings, vecStore>>

\* The caller takes the result of the call; the next call may begin.
Return ==
    /\ UNCHANGED components
    /\ pc = "returned"
    /\ pc' = "idle"
    /\ call' = NoCall
    /\ last' = NoLast
    /\ log' = <<>>
    /\ UNCHANGED <<settings, graphInst, vecStore, graphDocs>>

Next ==
    \/ \E ug \in UseGraphArgs, sn \in StrategyArgs, filt \in FilterArgs,
          net \in NetOutcomes, vout \in VectorOutcomes, gout \in ContextOutcomes :
          AskRetrieve(ug, sn, filt, net, vout, gout)
    \/ \E failure \in LLMFailures : AskGenerateFails(failure)
    \/ \E raw \in Responses : AskGenerate(raw)
    \/ \E texts \in SeqsUpTo(Texts, MaxBatch), metadatas \in MetadataArgs,
          ug \in UseGraphArgs, net \in NetOutcomes, vout \in VectorOutcomes :
          IngestVector(texts, metadatas, ug, net, vout)
    \/ \E net \in NetOutcomes : \E aouts \in [1..Len(call.texts) -> AddOutcomes] :
          IngestGraph(net, aouts)
    \/ Return

Spec == Init /\ [][Next]_allvars


\* ------------------------------------------------------------------ claims
Range(f) == { f[i] : i \in DOMAIN f }

AskReturned == pc = "returned" /\ last.op = "ask"
IngestReturned == pc = "returned" /\ last.op = "ingest"

\* The response of the LLM call of the ask that has returned, as the inner
\* try block of ask sees it.
LastParsed == JsonLoads(StripFence(last.raw))

\* C1: ask never raises and always returns a record that has both keys
\* facts and answer, whatever the stores and the LLM do and whatever text
\* the LLM returns.
C1_AskReturnsFactsAnswerRecord ==
    AskReturned =>
        /\ last.raised = "none"
        /\ last.ret.type = "dict"
        /\ {"facts", "answer"} \subseteq last.ret.keys

\* C2: when the LLM response parses as a JSON object that lacks the facts
\* key or the answer key, ask returns {facts: [], answer: raw response},
\* as it does for text that does not parse.
C2_MissingKeyFallsBackToRaw ==
    (/\ AskReturned
     /\ last.responded
     /\ LastParsed.ok
     /\ LastParsed.value.type = "dict"
     /\ ~({"facts", "answer"} \subseteq LastParsed.value.keys))
    => last.ret = FactsAnswer(<<>>, last.raw)

\* C3: when something was retrieved and the LLM response does not parse as
\* JSON, ask returns {facts: [], answer: r} with r the raw response, not the
\* stripped or unfenced text, and does not raise.
C3_UnparseableFallsBackToRaw ==
    (AskReturned /\ last.responded /\ ~LastParsed.ok)
    => /\ last.raised = "none"
       /\ last.ret = FactsAnswer(<<>>, last.raw)

\* C3 witness: an unparseable response whose raw text differs from both its
\* stripped and its unfenced form has been answered.
C3_Witness ==
    /\ AskReturned
    /\ last.responded
    /\ ~LastParsed.ok
    /\ Strip(last.raw) # last.raw
    /\ StripFence(last.raw) # Strip(last.raw)
    /\ last.ret = FactsAnswer(<<>>, last.raw)

IsLLMCall(e) == e \in { "llm:extract", "llm:answer" }

\* C4 as claimed: when the strategy returns an empty sequence, ask returns
\* the fixed "could not find" answer and no generate_response call of any
\* kind is made during that ask call.
C4_EmptyRetrievalNoLLMCallAtAll ==
    (AskReturned /\ call.empty)
    => /\ last.ret = FactsAnswer(<<>>, NOT_FOUND)
       /\ \A e \in Range(log) : ~IsLLMCall(e)

\* C4 amended: when the strategy returns an empty sequence, ask returns the
\* fixed "could not find" answer without calling the LLM for an answer; the
\* only LLM calls of that ask call are the entity extractions that the graph
\* retrieval of the hybrid strategy makes on an available graph store.
C4_EmptyRetrievalNoAnswerCall ==
    (AskReturned /\ call.empty)
    => /\ last.ret = FactsAnswer(<<>>, NOT_FOUND)
       /\ ~last.responded
       /\ "llm:answer" \notin Range(log)
       /\ ("llm:extract" \in Range(log)
             => call.strategy = "hybrid" /\ call.gstore # "None" /\ IsAvailable(call.gstore))

\* C4 witness: an ask whose hybrid retrieval came back empty although the
\* graph store was read has returned.
C4_Witness ==
    /\ AskReturned
    /\ call.empty
    /\ "graph_read" \in Range(log)
    /\ last.ret = FactsAnswer(<<>>, NOT_FOUND)


\* What add_texts does with the arguments of the ingest call (the outcome
\* does not depend on the records already stored).
CallWrite == AddTexts(<<>>, call.texts, call.metadatas, call.vout)

\* The records that the ingest call appended to the vector store.
WrittenTexts ==
    [i \in 1..Len(call.texts) |-> vecStore[Len(vecStore) - Len(call.texts) + i].text]

\* C5: within one ingest call the vector-store write of all texts completes
\* before the first graph-store write; when the vector-store write fails the
\* error propagates and no graph-store write is made in that call.
C5_VectorWriteBeforeGraphWrite ==
    call.op = "ingest" =>
        /\ \A i \in DOMAIN log :
              log[i] = "graph_write" => \E j \in 1..(i - 1) : log[j] = "vec_write"
        /\ ("graph_write" \in Range(log) \/ (pc = "ingest_graph" /\ call.texts # <<>>))
              => /\ call.wrote
                 /\ Len(vecStore) >= Len(call.texts)
                 /\ WrittenTexts = call.texts
        /\ (pc \in {"ingest_graph", "returned"} /\ ~call.wrote /\ call.texts # <<>>)
              => /\ pc = "returned"
                 /\ last.raised # "none"
                 /\ "graph_write" \notin Range(log)

\* C5 witness: an ingest of a full batch has written to the vector store
\* and then to the graph.
C5_Witness ==
    /\ IngestReturned
    /\ "graph_write" \in Range(log)
    /\ log[1] = "vec_write"
    /\ Len(call.texts) = MaxBatch

\* C6: when ingest is called with use_graphrag=True and add_document_to_graph
\* fails for some text, ingest raises a GraphError.
C6_ExplicitGraphFailurePropagates ==
    (IngestReturned /\ call.ug = "True" /\ call.graphFailure = "add_document_to_graph")
    => last.raised = "GraphError"

\* C7: when ingest is called with use_graphrag unset, no failure of the graph
\* store (in its construction or in add_document_to_graph) keeps ingest from
\* writing to the vector store or makes it raise: whenever the vector write
\* itself succeeds, ingest returns normally with all texts written.
C7_AutoGraphFailureNeverBlocksIngest ==
    (IngestReturned /\ call.ug = "None" /\ CallWrite.raised = "none")
    => /\ last.raised = "none"
       /\ call.wrote = CallWrite.wrote

GraphEvents == { "graph_read", "graph_write", "llm:extract" }

\* No usable graph credentials: GraphRAG is switched off or no password is set.
GraphUnconfigured == settings.graph \in { "disabled", "no_password" }

\* C8: when the graph store is unavailable (no credentials configured), ingest
\* and ask with use_graphrag unset behave as in vector-only mode: ingest does
\* the vector write only, the context ask retrieves is the VectorOnly
\* retrieval for the same question, limit and filter, the graph is neither
\* read nor written, and no GraphError is raised.
C8_UnconfiguredGraphIsVectorOnly ==
    (GraphUnconfigured /\ call.ug = "None")
    => /\ Range(log) \cap GraphEvents = {}
       /\ IngestReturned
             => /\ last.raised = CallWrite.raised
                /\ call.wrote = CallWrite.wrote
       /\ (call.op = "ask" /\ ~call.prompted)
             => LET ref == VectorOnlyRetrieve(vecStore, settings.max_context_chunks,
                                              call.filt, call.vout)
                IN /\ call.retrieved = (ref.raised = "none")
                   /\ call.docs = ref.docs
                   /\ (pc = "returned" /\ ref.raised # "none")
                         => last.ret = AskCatch(ref.raised)

\* The hybrid retrieval of the ask in progress has returned and its result
\* is still in call.
HybridRetrieved ==
    call.op = "ask" /\ call.retrieved /\ ~call.prompted /\ call.strategy = "hybrid"

\* The VectorOnly retrieval for the same query, limit and filter.
VectorOnlyDocs ==
    VectorOnlyRetrieve(vecStore, settings.max_context_chunks, call.filt, call.vout).docs

\* C9: the Hybrid result has the VectorOnly result for the same query, limit
\* and filter as its prefix, followed by at most one more entry; that entry
\* is "[Graph Context] " + the graph context, is there only if a graph store
\* was supplied, is available and returned a non-empty context, and is last.
C9_HybridExtendsVectorOnly ==
    HybridRetrieved =>
        LET n == Len(VectorOnlyDocs)
        IN /\ Len(call.docs) \in { n, n + 1 }
           /\ SubSeq(call.docs, 1, n) = VectorOnlyDocs
           /\ Len(call.docs) = n + 1
                 => /\ call.docs[n + 1] = <<GRAPH_PREFIX, call.gout>>
                    /\ call.gout \notin { "", "GraphError" }
                    /\ call.gstore # "None"
                    /\ IsAvailable(call.gstore)
           /\ \A i \in 1..n : call.docs[i][1] # GRAPH_PREFIX

\* C9 witness: a hybrid retrieval returned vector hits followed by the graph
\* entry.
C9_Witness ==
    /\ HybridRetrieved
    /\ Len(VectorOnlyDocs) >= 2
    /\ Len(call.docs) = Len(VectorOnlyDocs) + 1

IsVectorEntry(d) == Len(d) = 1

CandidateNames == { "Ada", "ada", "Bob", " Bob", "Zed", "" }
StripName(n) == IF n = " Bob" THEN "Bob" ELSE n
Lower(n) == CASE n = "Ada" -> "ada" [] n = "Bob" -> "bob" [] n = "Zed" -> "zed" [] OTHER -> n

\* entity.get("type", "OTHER").upper() and
\* rel.get("type", "RELATED_TO").upper().replace(" ", "_").
Upper(t) == CASE t = "person" -> "PERSON" [] t = "works with" -> "WORKS WITH" [] OTHER -> t
RelType(t) == IF Upper(t) = "WORKS WITH" THEN "WORKS_WITH" ELSE Upper(t)

Ent(n, t) == [name |-> n, type |-> t]
Rel(s, t, ty) == [source |-> s, target |-> t, type |-> ty]

\* entity_id = f"{entity_type}:{entity_name}"
EntityId(type, name) == <<type, ":", name>>
Node(type, name) == [id |-> EntityId(type, name), name |-> name, type |-> type]

\* What the LLM extracts from the documents explored.
Extractions ==
    { [entities |-> <<Ent("Ada", "person"), Ent(" Bob", "PERSON")>>,
       relationships |-> <<Rel("Ada", "Bob", "works with")>>],
      [entities |-> <<Ent("Ada", "PERSON")>>,
       relationships |-> <<Rel("Ada", "Zed", "KNOWS")>>],
      [entities |-> <<Ent("Ada", "PERSON"), Ent("Bob", "PERSON")>>,
       relationships |-> <<Rel("ada", "Bob", "KNOWS")>>],
      [entities |-> <<Ent("Ada", "PERSON"), Ent("Ada", "ORG"), Ent("Bob", "PERSON")>>,
       relationships |-> <<Rel("Bob", "Ada", "KNOWS")>>],
      [entities |-> <<>>,
       relationships |-> <<Rel("Bob", "Ada", "KNOWS")>>],
      [entities |-> <<Ent("", "PERSON")>>,
       relationships |-> <<Rel("", "Bob", "KNOWS")>>],
      [entities |-> <<>>, relationships |-> <<>>] }

\* One complete JSON value each, as for the answer of ask.
ExtractTokens ==
    { "obj{entities,relationships}", "obj{entities}", "obj{relationships}", "obj{ }",
      "arr[entities,relationships]", "arr[ ]", "str(entities relationships)", "number" }

\* What "entities" in v and "relationships" in v give for the parsed value.
ExtractJsonValue(tok) ==
    CASE tok = "obj{entities,relationships}" -> [type |-> "dict", has |-> {"entities", "relationships"}]
      [] tok = "obj{entities}"               -> [type |-> "dict", has |-> {"entities"}]
      [] tok = "obj{relationships}"          -> [type |-> "dict", has |-> {"relationships"}]
      [] tok = "obj{ }"                      -> [type |-> "dict", has |-> {}]
      [] tok = "arr[entities,relationships]" -> [type |-> "list", has |-> {"entities", "relationships"}]
      [] tok = "arr[ ]"                      -> [type |-> "list", has |-> {}]
      [] tok = "str(entities relationships)" -> [type |-> "str", has |-> {"entities", "relationships"}]
      [] OTHER                               -> [type |-> "number", has |-> {}]

ExtractLoads(s) ==
    LET t == Strip(s)
    IN IF Len(t) = 1 /\ t[1] \in ExtractTokens
       THEN [ok |-> TRUE, value |-> ExtractJsonValue(t[1])]
       ELSE [ok |-> FALSE, value |-> [type |-> "none", has |-> {}]]

ExtractResponses ==
    { w.pre \o <<t>> \o w.post : w \in Wrappers, t \in ExtractTokens \cup TextTokens }
    \cup { <<>> }

\* The outcomes of the LLM for one extraction: get_default_llm() fails to
\* construct the client, generate_response raises, or it returns a text.
ExtractLLMOutcomes == { "ConfigurationError", "ProviderError", "RuntimeError", "text" }

EmptyExtraction == [type |-> "dict", keys |-> {"entities", "relationships"},
                    entities |-> <<>>, relationships |-> <<>>]

\* extract_entities_and_relationships on a store with a driver: llmOut is
\* the outcome of the LLM, raw the text it returns and content what a JSON
\* object of that text holds under the keys it has.
Extract(llmOut, raw, content) ==
    IF llmOut = "ConfigurationError"
    THEN [raised |-> "ConfigurationError", value |-> EmptyExtraction, events |-> <<>>]
    ELSE IF llmOut # "text"
    THEN [raised |-> "none", value |-> EmptyExtraction, events |-> <<"llm:extract">>]
    ELSE LET parsed == ExtractLoads(StripFence(raw))
             v == parsed.value
             isEmpty == \/ ~parsed.ok
                        \/ v.type = "number"
                        \/ (v.type # "dict" /\ v.has # {"entities", "relationships"})
             value == IF isEmpty THEN EmptyExtraction
                      ELSE IF v.type = "dict"
                      THEN [type |-> "dict", keys |-> {"entities", "relationships"},
                            entities |-> IF "entities" \in v.has THEN content.entities ELSE <<>>,
                            relationships |-> IF "relationships" \in v.has
                                              THEN content.relationships ELSE <<>>]
                      ELSE [type |-> v.type, keys |-> {}, entities |-> <<>>, relationships |-> <<>>]
         IN [raised |-> "none", value |-> value, events |-> <<"llm:extract">>]


\* A variant that replaces the graph by the merged node.
MergeNode_DropOthers(nodes, type, name) == { Node(type, name) }

\* MERGE (e:Entity {id: $entity_id}) SET e.name, e.type: one node per id.
MergeNode(nodes, type, name) ==
    { n \in nodes : n.id # EntityId(type, name) } \cup { Node(type, name) }

\* MATCH (e:Entity {name: $name}) RETURN e.id LIMIT 1: the nodes whose name
\* is exactly the given one; the query returns any one of them.
MatchByName(nodes, name) == { n \in nodes : n.name = name }

NodeIds(nodes) == { n.id : n \in nodes }

\* A variant that merges the relationship without matching its endpoints.
MergeEdge_NoMatch(nodes, edges, src, tgt, type) ==
    edges \cup { [source |-> src, target |-> tgt, type |-> type] }

\* MATCH (source {id}) MATCH (target {id}) MERGE (source)-[r {type}]->(target):
\* nothing is written unless both nodes are there; one edge per triple.
MergeEdge(nodes, edges, src, tgt, type) ==
    IF src \in NodeIds(nodes) /\ tgt \in NodeIds(nodes)
    THEN edges \cup { [source |-> src, target |-> tgt, type |-> type] }
    ELSE edges

KgOps == { "add_document_to_graph", "get_graph_context", "clear_graph" }

\* What an operation returns on a store without a driver.
Neutral(op) == IF op = "get_graph_context" THEN "" ELSE "None"

NoId == <<>>
NoLLM == [out |-> "none", raw |-> <<>>]
NoExtract == [raised |-> "none", value |-> EmptyExtraction, events |-> <<>>]
NoPrev == [valid |-> FALSE, doc |-> EmptyExtraction, nodes |-> {}, edges |-> {}]
KgNoLast == [op |-> "none", raised |-> "none", ret |-> "None", events |-> <<>>,
             constructed |-> "none", merged |-> FALSE]

KgStart(cfg) ==
    [cfg |-> cfg, inst |-> "absent", nodes |-> {}, edges |-> {}, pc |-> "idle",
     llm |-> NoLLM, ext |-> NoExtract, doc |-> EmptyExtraction, i |-> 0, j |-> 0,
     src |-> NoId, tgt |-> NoId, interleaved |-> FALSE, repeat |-> FALSE,
     prev |-> NoPrev, last |-> KgNoLast]

\* The locals of a call are dropped when it returns or raises.
KgFinish(k, op, raised, ret, events, merged) ==
    [k EXCEPT !.pc = "returned", !.llm = NoLLM, !.ext = NoExtract, !.i = 0, !.j = 0,
              !.src = NoId, !.tgt = NoId,
              !.last = [op |-> op, raised |-> raised, ret |-> ret, events |-> events,
                        constructed |-> "none", merged |-> merged]]

KgOthers == <<settings, graphInst, vecStore, graphDocs, pc, call, last, log, chunker, groq,
      reg, qd, dirs, race, ctx>>

\* A caller takes the store from get_graph_store() and calls op on it; here
\* the constructor raises, or the store has no driver and op returns at its
\* first line.
KgCallWithoutDriver(op, net) ==
    /\ kg.pc = "idle"
    /\ LET r == GetGraphStore(kg.inst, kg.cfg, net)
       IN /\ r.raised # "none" \/ r.inst = "nodriver"
          /\ kg' = [kg EXCEPT !.inst = r.inst, !.pc = "returned",
                              !.last = [op |-> op, raised |-> r.raised,
                                        ret |-> IF r.raised = "none" THEN Neutral(op) ELSE "raised",
                                        events |-> <<>>, constructed |-> r.raised,
                                        merged |-> FALSE]]
    /\ UNCHANGED KgOthers

KgConnects(net) == LET r == GetGraphStore(kg.inst, kg.cfg, net)
                   IN r.raised = "none" /\ r.inst = "connected"

DbOutcomes == { "ok", "fails" }

\* clear_graph on a connected store: MATCH (n) DETACH DELETE n.
KgClearGraph(net, dbout) ==
    /\ kg.pc = "idle"
    /\ KgConnects(net)
    /\ kg' = IF dbout = "ok"
             THEN KgFinish([kg EXCEPT !.inst = "connected", !.nodes = {}, !.edges = {},
                                      !.prev = NoPrev],
                           "clear_graph", "none", "None", <<"graph_write">>, FALSE)
             ELSE KgFinish([kg EXCEPT !.inst = "connected"],
                           "clear_graph", "GraphError", "raised", <<>>, FALSE)
    /\ UNCHANGED KgOthers

\* get_graph_context on a connected store.
KgGetGraphContext(net, gout) ==
    /\ kg.pc = "idle"
    /\ KgConnects(net)
    /\ LET r == GetGraphContext(gout)
       IN kg' = KgFinish([kg EXCEPT !.inst = "connected"], "get_graph_context", r.raised,
                         IF r.raised = "none" THEN r.context ELSE "raised", r.events, FALSE)
    /\ UNCHANGED KgOthers


ADD == "add_document_to_graph"

\* add_document_to_graph on a connected store, first step: the extraction.
KgAddExtract(net, llmOut, raw, content) ==
    /\ kg.pc = "idle"
    /\ KgConnects(net)
    /\ kg' = [kg EXCEPT !.inst = "connected", !.pc = "extracted",
                        !.llm = [out |-> llmOut, raw |-> raw],
                        !.ext = Extract(llmOut, raw, content),
                        !.interleaved = FALSE, !.repeat = FALSE]
    /\ UNCHANGED KgOthers

\* extracted.get(...) and the early return: an exception of the extraction
\* and the AttributeError of a value that is no dict become a GraphError.
KgAddUnpack ==
    /\ kg.pc = "extracted"
    /\ LET r == kg.ext
           v == r.value
       IN kg' = IF r.raised # "none" \/ v.type # "dict"
                THEN KgFinish(kg, ADD, "GraphError", "raised", r.events, FALSE)
                ELSE IF v.entities = <<>> /\ v.relationships = <<>>
                THEN KgFinish(kg, ADD, "none", "None", r.events, FALSE)
                ELSE [kg EXCEPT !.pc = IF v.entities # <<>> THEN "entities" ELSE "source",
                                !.doc = v, !.i = 1, !.j = 1, !.llm = NoLLM, !.ext = NoExtract,
                                !.repeat = kg.prev.valid /\ kg.prev.doc = v /\ ~kg.interleaved]
    /\ UNCHANGED KgOthers

\* One iteration of "for entity in entities".
KgMergeEntity ==
    /\ kg.pc = "entities"
    /\ LET e == kg.doc.entities[kg.i]
           name == StripName(e.name)
           type == Upper(e.type)
           nodes == IF name = "" THEN kg.nodes ELSE MergeNode(kg.nodes, type, name)
           k == [kg EXCEPT !.nodes = nodes]
       IN kg' = IF kg.i < Len(kg.doc.entities) THEN [k EXCEPT !.i = kg.i + 1]
                ELSE IF kg.doc.relationships # <<>> THEN [k EXCEPT !.pc = "source"]
                ELSE KgFinish(k, ADD, "none", "None", <<"llm:extract", "graph_write">>, TRUE)
    /\ UNCHANGED KgOthers

\* The end of one iteration of "for rel in relationships".
KgNextRel(k) ==
    IF k.j < Len(k.doc.relationships)
    THEN [k EXCEPT !.j = k.j + 1, !.pc = "source", !.src = NoId, !.tgt = NoId]
    ELSE KgFinish(k, ADD, "none", "None", <<"llm:extract", "graph_write">>, TRUE)

SourceName(k) == StripName(k.doc.relationships[k.j].source)
TargetName(k) == StripName(k.doc.relationships[k.j].target)

\* A blank endpoint skips the candidate; else the source is looked up by name.
KgResolveSource ==
    /\ kg.pc = "source"
    /\ LET found == MatchByName(kg.nodes, SourceName(kg))
       IN IF SourceName(kg) = "" \/ TargetName(kg) = "" \/ found = {}
          THEN kg' = KgNextRel(kg)
          ELSE \E n \in found : kg' = [kg EXCEPT !.src = n.id, !.pc = "target"]
    /\ UNCHANGED KgOthers

KgResolveTarget ==
    /\ kg.pc = "target"
    /\ LET found == MatchByName(kg.nodes, TargetName(kg))
       IN IF found = {}
          THEN kg' = KgNextRel(kg)
          ELSE \E n \in found : kg' = [kg EXCEPT !.tgt = n.id, !.pc = "edge"]
    /\ UNCHANGED KgOthers

KgMergeEdge ==
    /\ kg.pc = "edge"
    /\ kg' = KgNextRel([kg EXCEPT !.edges = MergeEdge(kg.nodes, kg.edges, kg.src, kg.tgt,
                                                      RelType(kg.doc.relationships[kg.j].type))])
    /\ UNCHANGED KgOthers

InSession == kg.pc \in { "entities", "source", "target", "edge" }

\* session.run (or opening the session) raises: except Exception raises
\* GraphError; what was merged before stays.
KgDbFailure ==
    /\ InSession
    /\ kg' = KgFinish(kg, ADD, "GraphError", "raised", <<"llm:extract">>, FALSE)
    /\ UNCHANGED KgOthers

\* Another client of the same database clears the graph while this call
\* is between two of its queries.
KgConcurrentClear ==
    /\ InSession \/ kg.pc = "extracted"
    /\ kg.nodes # {}
    /\ kg' = [kg EXCEPT !.nodes = {}, !.edges = {}, !.interleaved = TRUE, !.repeat = FALSE,
                        !.prev = NoPrev]
    /\ UNCHANGED KgOthers

\* The caller goes on.  The graph a complete, undisturbed
\* add_document_to_graph left is remembered together with its document.
KgReturn ==
    /\ kg.pc = "returned"
    /\ kg' = [kg EXCEPT !.pc = "idle", !.last = KgNoLast, !.doc = EmptyExtraction,
                        !.interleaved = FALSE, !.repeat = FALSE,
                        !.prev = IF kg.last.op # ADD THEN kg.prev
                                 ELSE IF kg.last.merged /\ ~kg.interleaved
                                 THEN [valid |-> TRUE, doc |-> kg.doc,
                                       nodes |-> kg.nodes, edges |-> kg.edges]
                                 ELSE IF kg.last.raised = "none" /\ ~kg.interleaved THEN kg.prev
                                 ELSE NoPrev]
    /\ UNCHANGED KgOthers

GraphInit ==
    /\ kg \in { KgStart(cfg) : cfg \in GraphConfigs }
    /\ settings = [graph |-> "configured", max_context_chunks |-> 1]
    /\ graphInst = "absent"
    /\ vecStore = <<>>
    /\ graphDocs = {}
    /\ pc = "parked"
    /\ call = NoCall
    /\ last = NoLast
    /\ log = <<>>
    /\ chunker = Parked
    /\ groq = Parked
    /\ reg = Parked
    /\ qd = Parked
    /\ dirs = Parked
    /\ race = Parked
    /\ ctx = Parked

GraphNext ==
    \/ \E op \in KgOps, net \in NetOutcomes : KgCallWithoutDriver(op, net)
    \/ \E net \in NetOutcomes, dbout \in DbOutcomes : KgClearGraph(net, dbout)
    \/ \E net \in NetOutcomes, gout \in ContextOutcomes : KgGetGraphContext(net, gout)
    \/ \E net \in NetOutcomes, llmOut \in ExtractLLMOutcomes, raw \in ExtractResponses,
          content \in Extractions : KgAddExtract(net, llmOut, raw, content)
    \/ KgAddUnpack
    \/ KgMergeEntity
    \/ KgResolveSource
    \/ KgResolveTarget
    \/ KgMergeEdge
    \/ KgDbFailure
    \/ KgConcurrentClear
    \/ KgReturn

GraphSpec == GraphInit /\ [][GraphNext]_allvars


\* --------------------------------------------------- claims on the graph
EdgeIntegrity ==
    \A e \in kg.edges : e.source \in NodeIds(kg.nodes) /\ e.target \in NodeIds(kg.nodes)

\* The endpoint the call is about to look up matches no stored entity.
Unresolved(k) ==
    \/ k.pc = "source" /\ MatchByName(k.nodes, SourceName(k)) = {}
    \/ k.pc = "target" /\ MatchByName(k.nodes, TargetName(k)) = {}

\* C11: in every state reached by add_document_to_graph and clear_graph,
\* interleaved in any way, both endpoints of every edge are nodes of the
\* graph; and the step that drops a relationship candidate whose endpoint
\* matches no stored entity changes neither the nodes nor the edges.
C11_RelationshipIntegrity ==
    /\ []EdgeIntegrity
    /\ [][(Unresolved(kg) /\ (kg'.pc # kg.pc \/ kg'.j # kg.j))
            => (kg'.nodes = kg.nodes /\ kg'.edges = kg.edges)]_allvars

\* A complete call that kept an edge and dropped a candidate whose target
\* matches no stored entity.
C11_Witness ==
    /\ kg.pc = "returned" /\ kg.last.merged
    /\ kg.edges # {}
    /\ \E j \in 1..Len(kg.doc.relationships) :
          /\ MatchByName(kg.nodes, StripName(kg.doc.relationships[j].source)) # {}
          /\ MatchByName(kg.nodes, StripName(kg.doc.relationships[j].target)) = {}

\* A complete, undisturbed add_document_to_graph of the document that the
\* previous complete call added.
SecondAddReturned ==
    kg.pc = "returned" /\ kg.last.op = ADD /\ kg.last.merged /\ kg.repeat /\ ~kg.interleaved

\* C12: adding the same document a second time (same extraction result)
\* leaves the same entity ids and the same (source, target, type) edges as
\* adding it once.
C12_SecondAddChangesNothing ==
    SecondAddReturned =>
        /\ NodeIds(kg.nodes) = NodeIds(kg.prev.nodes)
        /\ kg.edges = kg.prev.edges

NameOf(id) == id[3]

\* C13: after a complete, undisturbed add_document_to_graph, every
\* relationship candidate whose two names equal stored entity names up to
\* letter case has its edge in the graph.
C13_CaseInsensitiveResolution ==
    (kg.pc = "returned" /\ kg.last.merged /\ ~kg.interleaved) =>
        \A j \in 1..Len(kg.doc.relationships) :
            LET r == kg.doc.relationships[j]
                s == StripName(r.source)
                t == StripName(r.target)
            IN (/\ s # "" /\ t # ""
                /\ \E n \in kg.nodes : Lower(n.name) = Lower(s)
                /\ \E n \in kg.nodes : Lower(n.name) = Lower(t))
               => \E e \in kg.edges : /\ e.type = RelType(r.type)
                                      /\ Lower(NameOf(e.source)) = Lower(s)
                                      /\ Lower(NameOf(e.target)) = Lower(t)

\* C14: a call of add_document_to_graph, get_graph_context or clear_graph
\* while the store has no connected driver (not configured, or its
\* construction failed) touches neither the graph nor the LLM and returns
\* the neutral result without raising.
C14_NoDriverIsNeutral ==
    (kg.pc = "returned" /\ kg.inst # "connected") =>
        /\ kg.last.raised = "none"
        /\ kg.last.events = <<>>
        /\ kg.last.ret = Neutral(kg.last.op)

\* C15: whatever the LLM does, the extraction raises nothing and returns a
\* record with the keys entities and relationships; it is the empty record
\* when the LLM raised or its text is no JSON object.
C15_ExtractNeverRaises ==
    kg.pc = "extracted" =>
        /\ kg.ext.raised = "none"
        /\ kg.ext.value.type = "dict"
        /\ kg.ext.value.keys = {"entities", "relationships"}
        /\ (kg.llm.out # "text" \/ ~ExtractLoads(StripFence(kg.llm.raw)).ok
            \/ ExtractLoads(StripFence(kg.llm.raw)).value.type # "dict")
           => kg.ext.value = EmptyExtraction


\* ================================================================ chunker
\* SentenceChunkingStrategy.chunk of ragforge/strategies/chunking.py (and
\* _chunk_text of ragforge/utils.py, which has the same body).  A text is
\* its length, the positions (from 0) of its sentence terminators . ! ? and
\* newline, and the positions of its whitespace; every other character is a
\* letter.  A chunk is the window [lo, hi) of the text it was sliced from.

MaxIter == 5            \* iterations of the while loop explored in one call
SENTENCE_MIN == 100     \* "chunk_size > 100"
SCAN_DIVISOR == 5       \* "chunk_size // 5": the last 20% of the chunk

Text(len, dots, ws) == [len |-> len, dots |-> dots, ws |-> ws]

ChunkTexts ==
    { Text(0, {}, {}), Text(1, {}, {0}), Text(3, {}, {}), Text(4, {}, {0, 3}),
      Text(5, {}, {1, 2}), Text(250, {}, {}), Text(250, {95, 190}, {96, 191}),
      Text(130, {110}, {}), Text(200, {90}, {}), Text(200, {90, 150}, {}),
      Text(300, {50}, {100, 101}) }
ChunkSizes == { 0, 1, 2, 3, 100, 101, 120 }
ChunkOverlaps == { 0 - 1, 0, 1, 2, 20, 100, 115, 150 }

Max(a, b) == IF a >= b THEN a ELSE b

\* text[start:end] of Python for a text of length len: a negative index
\* counts from the end, and both indices are clipped to the text.
PyIndex(len, i) == IF i < 0 THEN Max(0, len + i) ELSE Min(i, len)
PySlice(len, start, end) ==
    LET lo == PyIndex(len, start)
        hi == PyIndex(len, end)
    IN [lo |-> lo, hi |-> Max(lo, hi)]

\* "if chunk_overlap >= chunk_size: chunk_overlap = chunk_size - 1"
ClampOverlap(size, overlap) == IF overlap >= size THEN size - 1 ELSE overlap

SearchStart(size) == Max(0, size - (size \div SCAN_DIVISOR))

\* for i in range(len(chunk) - 1, search_start, -1): the indices of the
\* chunk, above search_start, that hold a terminator.
TerminatorsInScan(text, w, size) ==
    { i \in (SearchStart(size) + 1)..(w.hi - w.lo - 1) : (w.lo + i) \in text.dots }

SetMax(S) == CHOOSE x \in S : \A y \in S : y <= x
SetMin(S) == CHOOSE x \in S : \A y \in S : x <= y

\* A variant whose cursor moves to the end of the chunk whatever the overlap.
ChunkBody_IgnoreOverlap(text, size, ov, start) ==
    LET end0 == start + size
        w == PySlice(text.len, start, end0)
        found == IF end0 < text.len /\ size > SENTENCE_MIN
                 THEN TerminatorsInScan(text, w, size) ELSE {}
        cut == found # {}
        chunk == IF cut THEN [lo |-> w.lo, hi |-> w.lo + SetMax(found) + 1] ELSE w
        end == IF cut THEN start + (chunk.hi - chunk.lo) ELSE end0
    IN [chunk |-> chunk, truncated |-> cut, end |-> end, next |-> end]

\* One pass through the body of the while loop, from the cursor start.
ChunkBody(text, size, ov, start) ==
    LET end0 == start + size
        w == PySlice(text.len, start, end0)
        found == IF end0 < text.len /\ size > SENTENCE_MIN
                 THEN TerminatorsInScan(text, w, size) ELSE {}
        cut == found # {}
        chunk == IF cut THEN [lo |-> w.lo, hi |-> w.lo + SetMax(found) + 1] ELSE w
        end == IF cut THEN start + (chunk.hi - chunk.lo) ELSE end0
    IN [chunk |-> chunk, truncated |-> cut, end |-> end,
        next |-> IF ov > 0 THEN end - ov ELSE end]

\* chunk.strip(): the window without its leading and trailing whitespace.
StripChunk(text, w) ==
    LET kept == { q \in w.lo..(w.hi - 1) : q \notin text.ws }
    IN IF kept = {} THEN [lo |-> w.lo, hi |-> w.lo]
       ELSE [lo |-> SetMin(kept), hi |-> SetMax(kept) + 1]

\* "[chunk for chunk in chunks if chunk]"
NonEmpty(chunks) == SelectSeq(chunks, LAMBDA c : c.hi > c.lo)

ChunkerIdle ==
    [pc |-> "idle", text |-> Text(0, {}, {}), size |-> 0, overlap |-> 0, ov |-> 0,
     start |-> 0, starts |-> <<>>, windows |-> <<>>, chunks |-> <<>>, result |-> <<>>]

ChunkOthers == <<settings, graphInst, vecStore, graphDocs, pc, call, last, log, kg, groq,
      reg, qd, dirs, race, ctx>>

\* chunk(text, chunk_size, chunk_overlap) up to the while loop.
ChunkCall(text, size, overlap) ==
    /\ chunker.pc = "idle"
    /\ chunker' = IF size <= 0
                  THEN [ChunkerIdle EXCEPT !.pc = "done", !.text = text, !.size = size,
                                           !.overlap = overlap, !.ov = overlap,
                                           !.result = << [lo |-> 0, hi |-> text.len] >>]
                  ELSE [ChunkerIdle EXCEPT !.pc = "loop", !.text = text, !.size = size,
                                           !.overlap = overlap,
                                           !.ov = ClampOverlap(size, overlap)]
    /\ UNCHANGED ChunkOthers

\* One iteration of "while start < text_length".
ChunkIterate ==
    /\ chunker.pc = "loop"
    /\ chunker.start < chunker.text.len
    /\ Len(chunker.windows) < MaxIter
    /\ LET b == ChunkBody(chunker.text, chunker.size, chunker.ov, chunker.start)
       IN chunker' = [chunker EXCEPT
                        !.starts = Append(@, chunker.start),
                        !.windows = Append(@, [lo |-> b.chunk.lo, hi |-> b.chunk.hi,
                                               truncated |-> b.truncated, end |-> b.end]),
                        !.chunks = Append(@, StripChunk(chunker.text, b.chunk)),
                        !.start = b.next]
    /\ UNCHANGED ChunkOthers

\* The loop ends (its condition, or the break that tests the same) and the
\* chunks that are not empty are returned.
ChunkExit ==
    /\ chunker.pc = "loop"
    /\ ~(chunker.start < chunker.text.len)
    /\ chunker' = [chunker EXCEPT !.pc = "done", !.result = NonEmpty(chunker.chunks)]
    /\ UNCHANGED ChunkOthers

ChunkInit ==
    /\ chunker = ChunkerIdle
    /\ kg = Parked
    /\ groq = Parked
    /\ reg = Parked
    /\ qd = Parked
    /\ dirs = Parked
    /\ race = Parked
    /\ ctx = Parked
    /\ settings = [graph |-> "configured", max_context_chunks |-> 1]
    /\ graphInst = "absent"
    /\ vecStore = <<>>
    /\ graphDocs = {}
    /\ pc = "parked"
    /\ call = NoCall
    /\ last = NoLast
    /\ log = <<>>

ChunkNext ==
    \/ \E text \in ChunkTexts, size \in ChunkSizes, overlap \in ChunkOverlaps :
          ChunkCall(text, size, overlap)
    \/ ChunkIterate
    \/ ChunkExit

ChunkSpec == ChunkInit /\ [][ChunkNext]_allvars


\* ------------------------------------------------- claims on the chunker
Chunking == chunker.pc \in { "loop", "done" } /\ chunker.size > 0
Chunked == chunker.pc = "done" /\ chunker.size > 0

\* The cursor after the k-th iteration.
CursorAfter(k) == IF k < Len(chunker.starts) THEN chunker.starts[k + 1] ELSE chunker.start

\* C16: for every text, chunk size > 0 and overlap, the cursor is strictly
\* larger after every iteration of the loop than before it (so the loop
\* ends after at most len(text) iterations), and no returned chunk is empty.
C16_CursorStrictlyAdvances ==
    Chunking =>
        /\ \A k \in 1..Len(chunker.starts) : CursorAfter(k) > chunker.starts[k]
        /\ chunker.pc = "done" => \A k \in 1..Len(chunker.result) :
                                      chunker.result[k].hi > chunker.result[k].lo

\* No chunk of the call was cut at a sentence terminator.
NoTruncation == \A k \in 1..Len(chunker.windows) : ~chunker.windows[k].truncated

\* The overlap in force: clamped below the chunk size, and none unless > 0.
EffectiveOverlap == Max(chunker.ov, 0)
Stride == chunker.size - EffectiveOverlap

Piece(k) ==
    LET w == chunker.windows[k]
    IN IF k = 1 THEN [lo |-> w.lo, hi |-> w.hi]
       ELSE [lo |-> Min(w.lo + EffectiveOverlap, w.hi), hi |-> w.hi]

\* C18: for every text and chunk size > 0, consecutive windows share
\* exactly the overlap region, and once chunk returns every position of
\* the text lies in a window and the windows without their overlap regions,
\* in order, are the text.
C18_WindowsCoverTheText ==
    Chunking =>
        /\ \A k \in 1..(Len(chunker.windows) - 1) :
              chunker.windows[k + 1].lo = chunker.windows[k].hi - EffectiveOverlap
        /\ chunker.pc = "done" =>
              /\ \A q \in 0..(chunker.text.len - 1) :
                    \E k \in 1..Len(chunker.windows) :
                        chunker.windows[k].lo <= q /\ q < chunker.windows[k].hi
              /\ \A k \in 1..Len(chunker.windows) :
                    Piece(k).lo = (IF k = 1 THEN 0 ELSE Piece(k - 1).hi)
              /\ chunker.windows # <<>> =>
                    Piece(Len(chunker.windows)).hi = chunker.text.len


\* ==================================================== GroqLLM retry loop
\* GroqLLM.generate_response of ragforge/llm/groq.py.

MaxRetries == 3         \* largest settings.llm_max_retries explored (>= 1)
BASE_INTERVAL == 1      \* "time.sleep(1 * retries)", in seconds

\* What one call of client.chat.completions.create can do: return a
\* completion with a content or with content None, or raise.  Every error
\* status of the API raises a subclass of groq.APIStatusError: 429 is
\* RateLimitError, 5xx InternalServerError, 401 AuthenticationError, 400
\* BadRequestError.
ProviderOutcomes ==
    { "content", "None", "APIConnectionError", "RateLimitError", "InternalServerError",
      "AuthenticationError", "BadRequestError", "TypeError" }

\* The errors the spec calls transient: rate limit, connection, transient status.
TransientErrors == { "APIConnectionError", "RateLimitError", "InternalServerError" }

StatusErrors ==
    { "RateLimitError", "InternalServerError", "AuthenticationError", "BadRequestError" }

\* except (groq.APIConnectionError, groq.RateLimitError, groq.APIStatusError)
IsRetried(outcome) ==
    outcome = "APIConnectionError" \/ outcome = "RateLimitError" \/ outcome \in StatusErrors

\* A variant of the loop condition that allows one more call.
MayCall_OneMore(retries, max) == retries <= max

\* "while retries < settings.llm_max_retries"
MayCall(retries, max) == retries < max

GroqIdle(max) ==
    [pc |-> "idle", max |-> max, retries |-> 0, last_error |-> "None",
     attempts |-> <<>>, sleeps |-> <<>>, raised |-> "none", error |-> "None", ret |-> <<>>]

GroqOthers == <<settings, graphInst, vecStore, graphDocs, pc, call, last, log, kg, chunker,
      reg, qd, dirs, race, ctx>>

\* generate_response is called: retries = 0, last_error = None.
GroqGenerate ==
    /\ groq.pc = "idle"
    /\ groq' = [GroqIdle(groq.max) EXCEPT !.pc = "loop"]
    /\ UNCHANGED GroqOthers

\* One iteration of the while loop: one call of the provider.
GroqAttempt(outcome) ==
    /\ groq.pc = "loop"
    /\ MayCall(groq.retries, groq.max)
    /\ LET g == [groq EXCEPT !.attempts = Append(@, outcome)]
           n == Len(g.attempts)
       IN groq' =
            IF outcome = "content"
            THEN [g EXCEPT !.pc = "done", !.ret = <<"content of call", n>>]
            ELSE IF IsRetried(outcome)
            THEN [g EXCEPT !.last_error = outcome, !.retries = @ + 1,
                           !.sleeps = Append(@, BASE_INTERVAL * (groq.retries + 1))]
            ELSE [g EXCEPT !.pc = "done", !.raised = "ProviderError",
                           !.error = IF outcome = "None" THEN "ProviderError" ELSE outcome]
    /\ UNCHANGED GroqOthers

\* The loop condition fails: "Max retries exceeded ... Last error: ...".
GroqExhausted ==
    /\ groq.pc = "loop"
    /\ ~MayCall(groq.retries, groq.max)
    /\ groq' = [groq EXCEPT !.pc = "done", !.raised = "ProviderError",
                            !.error = groq.last_error]
    /\ UNCHANGED GroqOthers

GroqReturn ==
    /\ groq.pc = "done"
    /\ groq' = GroqIdle(groq.max)
    /\ UNCHANGED GroqOthers

GroqInit ==
    /\ groq \in { GroqIdle(max) : max \in 1..MaxRetries }
    /\ kg = Parked
    /\ chunker = Parked
    /\ reg = Parked
    /\ qd = Parked
    /\ dirs = Parked
    /\ race = Parked
    /\ ctx = Parked
    /\ settings = [graph |-> "configured", max_context_chunks |-> 1]
    /\ graphInst = "absent"
    /\ vecStore = <<>>
    /\ graphDocs = {}
    /\ pc = "parked"
    /\ call = NoCall
    /\ last = NoLast
    /\ log = <<>>

GroqNext ==
    \/ GroqGenerate
    \/ \E outcome \in ProviderOutcomes : GroqAttempt(outcome)
    \/ GroqExhausted
    \/ GroqReturn

GroqSpec == GroqInit /\ [][GroqNext]_allvars

\* --------------------------------------------- claims on generate_response
Calls == Len(groq.attempts)
AllTransient == \A k \in 1..Calls : groq.attempts[k] \in TransientErrors

\* C19: generate_response returns the content of the first successful
\* provider call; it never makes more than llm_max_retries calls, it sleeps
\* attempt * 1 second after the attempt-th failure, and when every call
\* failed with a transient error it has made llm_max_retries calls and
\* raises ProviderError with the last error.
C19_RetryBound ==
    groq.pc \in { "loop", "done" } =>
        /\ Calls <= groq.max
        /\ AllTransient =>
              /\ Len(groq.sleeps) = Calls
              /\ \A k \in 1..Calls : groq.sleeps[k] = k * BASE_INTERVAL
        /\ (groq.pc = "done" /\ groq.raised = "none") =>
              /\ groq.attempts[Calls] = "content"
              /\ \A k \in 1..(Calls - 1) : groq.attempts[k] # "content"
              /\ groq.ret = <<"content of call", Calls>>
        /\ (groq.pc = "done" /\ AllTransient) =>
              /\ Calls = groq.max
              /\ groq.raised = "ProviderError"
              /\ groq.error = groq.attempts[Calls]

\* Every call failed with a transient error, and there were several.
C19_Witness ==
    /\ groq.pc = "done" /\ AllTransient
    /\ Calls = groq.max /\ Calls >= 2
    /\ groq.sleeps = [k \in 1..Calls |-> k * BASE_INTERVAL]

\* C20: when a provider call fails with an error that is not transient
\* (an authentication or bad-request status, a completion without content,
\* any other exception), generate_response raises ProviderError after that
\* one call, without a retry and without a delay for it.
C20_NonTransientFailsAtOnce ==
    \A k \in 1..Calls :
        (groq.attempts[k] \notin TransientErrors /\ groq.attempts[k] # "content") =>
            /\ k = Calls
            /\ groq.pc = "done" /\ groq.raised = "ProviderError"
            /\ Len(groq.sleeps) = k - 1

\* ================================================================ registries
\* core/registry.py: BaseRegistry keeps the registered provider classes and
\* the cached singleton instances in two class attributes; LLMRegistry,
\* VectorStoreRegistry and GraphStoreRegistry subclass it and only add their
\* default provider name.  get_provider is called from any thread and takes no
\* lock, so its lines interleave with those of another call.
MaxBuilt == 2
Threads == 1..2
Registries == { "LLMRegistry", "VectorStoreRegistry", "GraphStoreRegistry" }
RegNames == { "groq", "qdrant", "neo4j", "custom" }
NameArgs == { "None", "groq", "custom" }
CallRegistries == { "LLMRegistry", "GraphStoreRegistry" }
RegisterRegistries == { "VectorStoreRegistry" }
ClearRegistries == { "VectorStoreRegistry" }
NoClass == "none"
Dicts == Registries \cup { "BaseRegistry" }

\* _get_default_name of the three subclasses.
DefaultName(cls) ==
    CASE cls = "LLMRegistry" -> "groq"
      [] cls = "VectorStoreRegistry" -> "qdrant"
      [] OTHER -> "neo4j"

\* The class whose __dict__ holds the _providers and _instances that
\* cls._providers and cls._instances resolve to.
DictOwner(cls) == "BaseRegistry"

EmptyDicts(v) == [d \in Dicts |-> [n \in RegNames |-> v]]

\* register: cls._providers[name] = provider_class.
Register(providers, cls, name, klass) ==
    [providers EXCEPT ![DictOwner(cls)][name] = klass]

\* list_providers: list(cls._providers.keys()).
ListProviders(providers, cls) ==
    { n \in RegNames : providers[DictOwner(cls)][n] # NoClass }

\* The registrations made when the llm, vector and graph packages are imported.
ImportedProviders ==
    Register(
        Register(
            Register(EmptyDicts(NoClass), "LLMRegistry", "groq", "GroqLLM"),
            "VectorStoreRegistry", "qdrant", "VectorStore"),
        "GraphStoreRegistry", "neo4j", "GraphStore")
ImportRegistrations ==
    { <<"LLMRegistry", "groq">>, <<"VectorStoreRegistry", "qdrant">>,
      <<"GraphStoreRegistry", "neo4j">> }

ThreadIdle ==
    [pc |-> "idle", cls |-> "none", name |-> "none", singleton |-> TRUE,
     made |-> 0, result |-> 0, raised |-> "none"]

\* registered, constructed, cleared and lost record the history of the calls:
\* which (registry, name) pairs were passed to register, how many provider
\* constructors returned for a singleton get_provider on (registry, name), whether
\* clear_instances or register ran after the imports, and the registries that
\* no longer see one of their singletons after clear_instances of another.
RegStart ==
    [pc |-> "run",
     providers |-> ImportedProviders,
     instances |-> EmptyDicts(0),
     threads |-> [t \in Threads |-> ThreadIdle],
     built |-> 0,
     registered |-> ImportRegistrations,
     constructed |-> [k \in Registries \X RegNames |-> 0],
     cleared |-> FALSE,
     lost |-> {}]

RegOthers ==
    <<settings, graphInst, vecStore, graphDocs, pc, call, last, log,
      kg, chunker, groq, qd, dirs, race, ctx>>

\* The registries are idle and every other component is parked.
PipelineParked ==
    /\ settings = [graph |-> "configured", max_context_chunks |-> 1]
    /\ graphInst = "absent"
    /\ vecStore = <<>>
    /\ graphDocs = {}
    /\ pc = "parked"
    /\ call = NoCall
    /\ last = NoLast
    /\ log = <<>>
    /\ kg = Parked
    /\ chunker = Parked
    /\ groq = Parked

\* cls.register(name, provider_class) after the imports.
RegRegister(cls, name) ==
    /\ reg.pc = "run"
    /\ <<cls, name>> \notin reg.registered
    /\ reg' = [reg EXCEPT
                 !.providers = Register(reg.providers, cls, name, "CustomProvider"),
                 !.registered = @ \cup { <<cls, name>> },
                 !.cleared = TRUE]
    /\ UNCHANGED RegOthers

\* Thread t enters cls.get_provider(name, use_singleton); lines 49-50 replace
\* a name of None by the default name of the registry.
RegCall(t, cls, name, singleton) ==
    /\ reg.pc = "run"
    /\ reg.threads[t].pc = "idle"
    /\ reg' = [reg EXCEPT !.threads[t] =
                 [ThreadIdle EXCEPT
                    !.pc = "check",
                    !.cls = cls,
                    !.name = IF name = "None" THEN DefaultName(cls) ELSE name,
                    !.singleton = singleton]]
    /\ UNCHANGED RegOthers

\* Lines 52-59: the two membership tests.
RegCheck(t) ==
    LET th == reg.threads[t]
        d == DictOwner(th.cls)
    IN  /\ reg.pc = "run"
        /\ th.pc = "check"
        /\ reg' = [reg EXCEPT !.threads[t] =
                     IF reg.providers[d][th.name] = NoClass
                     THEN [th EXCEPT !.pc = "done", !.raised = "ConfigurationError"]
                     ELSE IF th.singleton /\ reg.instances[d][th.name] # 0
                     THEN [th EXCEPT !.pc = "fetch"]
                     ELSE [th EXCEPT !.pc = "construct"]]
        /\ UNCHANGED RegOthers

\* Lines 60 and 63: cls._providers[name]() runs the constructor of the
\* provider, which returns a new object or raises.
RegConstruct(t, out) ==
    LET th == reg.threads[t]
    IN  /\ reg.pc = "run"
        /\ th.pc = "construct"
        /\ IF out = "raises"
           THEN reg' = [reg EXCEPT !.threads[t] =
                          [th EXCEPT !.pc = "done", !.raised = "ConfigurationError"]]
           ELSE /\ reg.built < MaxBuilt
                /\ reg' = [reg EXCEPT
                             !.built = @ + 1,
                             !.constructed[<<th.cls, th.name>>] =
                                IF th.singleton THEN @ + 1 ELSE @,
                             !.threads[t] =
                                IF th.singleton
                                THEN [th EXCEPT !.pc = "store", !.made = reg.built + 1]
                                ELSE [th EXCEPT !.pc = "done", !.made = reg.built + 1,
                                                !.result = reg.built + 1]]
        /\ UNCHANGED RegOthers

\* Line 60, the assignment: cls._instances[name] = <the new object>.
RegStore(t) ==
    LET th == reg.threads[t]
    IN  /\ reg.pc = "run"
        /\ th.pc = "store"
        /\ reg' = [reg EXCEPT
                     !.instances[DictOwner(th.cls)][th.name] = th.made,
                     !.threads[t] = [th EXCEPT !.pc = "fetch"]]
        /\ UNCHANGED RegOthers

\* Line 61: return cls._instances[name]; a KeyError when the entry was
\* cleared in between.
RegFetch(t) ==
    LET th == reg.threads[t]
        inst == reg.instances[DictOwner(th.cls)][th.name]
    IN  /\ reg.pc = "run"
        /\ th.pc = "fetch"
        /\ reg' = [reg EXCEPT !.threads[t] =
                     IF inst = 0
                     THEN [th EXCEPT !.pc = "done", !.made = 0, !.raised = "KeyError"]
                     ELSE [th EXCEPT !.pc = "done", !.made = 0, !.result = inst]]
        /\ UNCHANGED RegOthers

\* clear_instances: cls._instances.clear().
RegClearInstances(cls) ==
    LET d == DictOwner(cls)
        Sees(c, insts) == { n \in RegNames : insts[DictOwner(c)][n] # 0 }
        after == [reg.instances EXCEPT ![d] = [n \in RegNames |-> 0]]
    IN  /\ reg.pc = "run"
        /\ \E n \in RegNames : reg.instances[d][n] # 0
        /\ reg' = [reg EXCEPT
                     !.instances = after,
                     !.cleared = TRUE,
                     !.lost = @ \cup
                        { c \in Registries \ { cls } :
                            Sees(c, reg.instances) # Sees(c, after) }]
        /\ UNCHANGED RegOthers

\* The caller of thread t takes the result.
RegReturn(t) ==
    /\ reg.pc = "run"
    /\ reg.threads[t].pc = "done"
    /\ reg' = [reg EXCEPT !.threads[t] = ThreadIdle]
    /\ UNCHANGED RegOthers

RegistryInit ==
    /\ reg = RegStart
    /\ PipelineParked
    /\ qd = Parked
    /\ dirs = Parked
    /\ race = Parked
    /\ ctx = Parked

RegistryNext ==
    \/ \E cls \in RegisterRegistries : RegRegister(cls, "custom")
    \/ \E t \in Threads, cls \in CallRegistries, name \in NameArgs, s \in BOOLEAN :
          RegCall(t, cls, name, s)
    \/ \E t \in Threads : RegCheck(t)
    \/ \E t \in Threads, out \in { "ok", "raises" } : RegConstruct(t, out)
    \/ \E t \in Threads : RegStore(t)
    \/ \E t \in Threads : RegFetch(t)
    \/ \E cls \in ClearRegistries : RegClearInstances(cls)
    \/ \E t \in Threads : RegReturn(t)

RegistrySpec == RegistryInit /\ [][RegistryNext]_allvars

\* ---------------------------------------------------------------- claim C21
SingletonCallers(cls, name) ==
    { t \in Threads :
        /\ reg.threads[t].pc = "done"
        /\ reg.threads[t].singleton
        /\ reg.threads[t].raised = "none"
        /\ reg.threads[t].cls = cls
        /\ reg.threads[t].name = name }

\* C21: singleton construction is race-free.  As long as no clear_instances
\* and no later register has run, the constructor of a provider returns at
\* most once per registry and provider name for all the singleton
\* get_provider calls together, and all callers that were handed an instance
\* for the same name were handed the same one.
C21_SingletonRaceFree ==
    ~reg.cleared =>
        \A cls \in Registries, name \in RegNames :
            /\ reg.constructed[<<cls, name>>] <= 1
            /\ \A t1, t2 \in SingletonCallers(cls, name) :
                  reg.threads[t1].result = reg.threads[t2].result

\* ---------------------------------------------------------------- claim C29
RegisteredOn(cls) == { n \in RegNames : <<cls, n>> \in reg.registered }

\* C29: the three registries are isolated.  A registry lists only the names
\* that were registered on it, a get_provider for a name that was never
\* registered on the registry it is asked from ends with ConfigurationError,
\* and no registry loses a cached singleton to clear_instances of another
\* registry.
C29_RegistriesIsolated ==
    /\ \A cls \in Registries : ListProviders(reg.providers, cls) \subseteq RegisteredOn(cls)
    /\ \A t \in Threads :
          (/\ reg.threads[t].pc = "done"
           /\ reg.threads[t].name \notin RegisteredOn(reg.threads[t].cls))
          => reg.threads[t].raised = "ConfigurationError"
    /\ reg.lost = {}

\* ==================================================== the Qdrant collection
\* vector/qdrant.py with the ids of the points: add_texts upserts one point
\* per text under the id given or a new uuid4, delete removes the points of
\* the ids given, and search returns the payload text of the best hits.  The
\* similarity ranking is the embedding model's: any order is possible.
MaxUuids == 2
MaxLimit == 2
QdTexts == { "alpha" }
PointIds == 1..2
NoPayload == [k \in {} |-> ""]
QdMetadatas == { NoPayload, [text |-> "beta"] }
QdFilters == { NoPayload, [text |-> "beta"] }
NotGiven == [given |-> FALSE, list |-> <<>>]
Given(list) == [given |-> TRUE, list |-> list]
Optional(S, n) == { NotGiven } \cup { Given(l) : l \in SeqsUpTo(S, n) }

\* str(uuid.uuid4()): the n-th identifier generated, different from every
\* identifier a caller passes.
Uuid4(n) == Cardinality(PointIds) + n

\* {"text": text, "document": text, **metadata}: a key of the metadata
\* replaces the key of the same name.
Payload(text, metadata) == metadata @@ [text |-> text, document |-> text]

\* hit.payload.get("text", hit.payload.get("document", ""))
PayloadText(payload) ==
    IF "text" \in DOMAIN payload THEN payload["text"]
    ELSE IF "document" \in DOMAIN payload THEN payload["document"]
    ELSE ""

\* client.upsert of one point: a point with the same id is replaced.  The
\* field text is the text that was passed to add_texts for the point.
Upsert(points, p) == { q \in points : q.id # p.id } \cup { p }

RECURSIVE UpsertAll(_, _)
UpsertAll(points, ps) ==
    IF ps = <<>> THEN points
    ELSE UpsertAll(Upsert(points, Head(ps)), Tail(ps))

\* VectorStore.add_texts, lines 100-135; fresh counts the uuids generated so
\* far and out is what the embedding and the upsert do.
QdAddTexts(points, texts, metadatas, ids, fresh, out) ==
    LET n == Len(texts)
        same == [raised |-> "none", points |-> points, fresh |-> fresh, io |-> FALSE]
    IN  IF texts = <<>> THEN same
        ELSE IF metadatas.given /\ Len(metadatas.list) # n
        THEN [same EXCEPT !.raised = "ValueError"]
        ELSE IF ids.given /\ Len(ids.list) # n
        THEN [same EXCEPT !.raised = "ValueError"]
        ELSE LET mds == IF metadatas.given THEN metadatas.list
                        ELSE [i \in 1..n |-> NoPayload]
                 pids == IF ids.given THEN ids.list
                         ELSE [i \in 1..n |-> Uuid4(fresh + i)]
                 used == IF ids.given THEN fresh ELSE fresh + n
                 ps == [i \in 1..n |->
                          [id |-> pids[i], text |-> texts[i],
                           payload |-> Payload(texts[i], mds[i])]]
             IN  IF out # "ok"
                 THEN [raised |-> "IngestionError", points |-> points,
                       fresh |-> used, io |-> TRUE]
                 ELSE [raised |-> "none", points |-> UpsertAll(points, ps),
                       fresh |-> used, io |-> TRUE]

\* VectorStore.delete, lines 194-207.
QdDelete(points, ids, out) ==
    IF out # "ok" THEN [raised |-> "RetrievalError", points |-> points]
    ELSE [raised |-> "none",
          points |-> { p \in points : \A i \in 1..Len(ids) : p.id # ids[i] }]

\* The equality filter over payload fields; an empty filter is no filter.
PayloadMatches(payload, filt) ==
    \A k \in DOMAIN filt : k \in DOMAIN payload /\ payload[k] = filt[k]

\* The rankings query_points can return: the limit best of the points that
\* match, in order of similarity.
Rankings(points, limit, filt) ==
    LET cands == { p \in points : PayloadMatches(p.payload, filt) }
        k == Min(limit, Cardinality(cands))
    IN  { r \in [1..k -> cands] : \A i, j \in 1..k : i # j => r[i] # r[j] }

\* VectorStore.search, lines 155-192, for the ranking hits.
QdSearch(hits, out) ==
    IF out # "ok" THEN [raised |-> "RetrievalError", ret |-> <<>>]
    ELSE [raised |-> "none", ret |-> [i \in 1..Len(hits) |-> PayloadText(hits[i].payload)]]

\* The last call: its name, the lengths of its list arguments (no for a list
\* that was not given), its limit and filter, and what it did.
LenOf(opt) == IF opt.given THEN <<Len(opt.list)>> ELSE <<>>
QdNoLast ==
    [op |-> "none", texts |-> 0, metadatas |-> <<>>, ids |-> <<>>,
     limit |-> 0, filt |-> NoPayload, raised |-> "none", io |-> FALSE,
     ret |-> <<>>, before |-> {}]
QdStart == [pc |-> "idle", points |-> {}, fresh |-> 0, last |-> QdNoLast]

QdOthers ==
    <<settings, graphInst, vecStore, graphDocs, pc, call, last, log,
      kg, chunker, groq, reg, dirs, race, ctx>>

QdCallAddTexts(texts, metadatas, ids, out) ==
    LET res == QdAddTexts(qd.points, texts, metadatas, ids, qd.fresh, out)
    IN  /\ qd.pc = "idle"
        /\ res.fresh <= MaxUuids
        /\ qd' = [qd EXCEPT
                    !.pc = "returned",
                    !.points = res.points,
                    !.fresh = res.fresh,
                    !.last = [QdNoLast EXCEPT
                                !.op = "add_texts", !.texts = Len(texts),
                                !.metadatas = LenOf(metadatas), !.ids = LenOf(ids),
                                !.raised = res.raised, !.io = res.io,
                                !.before = qd.points]]
        /\ UNCHANGED QdOthers

QdCallDelete(ids, out) ==
    LET res == QdDelete(qd.points, ids, out)
    IN  /\ qd.pc = "idle"
        /\ qd' = [qd EXCEPT
                    !.pc = "returned",
                    !.points = res.points,
                    !.last = [QdNoLast EXCEPT
                                !.op = "delete", !.ids = <<Len(ids)>>,
                                !.raised = res.raised, !.io = TRUE,
                                !.before = qd.points]]
        /\ UNCHANGED QdOthers

QdCallSearch(limit, filt, out) ==
    /\ qd.pc = "idle"
    /\ \E hits \in Rankings(qd.points, limit, filt) :
          LET res == QdSearch(hits, out)
          IN  qd' = [qd EXCEPT
                       !.pc = "returned",
                       !.last = [QdNoLast EXCEPT
                                   !.op = "search", !.limit = limit,
                                   !.filt = filt,
                                   !.raised = res.raised, !.io = TRUE,
                                   !.ret = res.ret, !.before = qd.points]]
    /\ UNCHANGED QdOthers

QdReturn ==
    /\ qd.pc = "returned"
    /\ qd' = [qd EXCEPT !.pc = "idle", !.last = QdNoLast]
    /\ UNCHANGED QdOthers

QdrantInit ==
    /\ qd = QdStart
    /\ PipelineParked
    /\ reg = Parked
    /\ dirs = Parked
    /\ race = Parked
    /\ ctx = Parked

QdrantNext ==
    \/ \E texts \in SeqsUpTo(QdTexts, MaxBatch),
          metadatas \in Optional(QdMetadatas, MaxBatch),
          ids \in Optional(PointIds, MaxBatch),
          out \in VectorOutcomes :
          QdCallAddTexts(texts, metadatas, ids, out)
    \/ \E ids \in SeqsUpTo(PointIds \cup { Uuid4(1) }, 1), out \in VectorOutcomes :
          QdCallDelete(ids, out)
    \/ \E limit \in 1..MaxLimit, filt \in QdFilters, out \in VectorOutcomes :
          QdCallSearch(limit, filt, out)
    \/ QdReturn

QdrantSpec == QdrantInit /\ [][QdrantNext]_allvars

\* ---------------------------------------------------------------- claim C22
LengthMismatch ==
    \/ qd.last.metadatas # <<>> /\ qd.last.metadatas[1] # qd.last.texts
    \/ qd.last.ids # <<>> /\ qd.last.ids[1] # qd.last.texts

\* C22: add_texts validates the lengths before any I/O.  For every list of
\* texts, the empty list included, a metadatas or an ids list of another
\* length makes add_texts fail with the validation error, without an
\* embedding or an upsert call and with the collection unchanged.
C22_LengthsValidatedFirst ==
    (qd.pc = "returned" /\ qd.last.op = "add_texts" /\ LengthMismatch) =>
        /\ qd.last.raised = "ValueError"
        /\ ~qd.last.io
        /\ qd.points = qd.last.before

\* ---------------------------------------------------------------- claim C27
StoredTexts == { p.text : p \in qd.points }
Returned == { qd.last.ret[i] : i \in 1..Len(qd.last.ret) }

\* C27: after any sequence of add_texts and delete calls, a search without a
\* filter that the backend answers returns at most limit texts, each the text
\* of a record stored at that time, nothing for an empty collection, and
\* every stored text when limit is at least the number of records.
C27_SearchReturnsStoredTexts ==
    (/\ qd.pc = "returned" /\ qd.last.op = "search" /\ qd.last.raised = "none"
     /\ qd.last.filt = NoPayload) =>
        /\ Len(qd.last.ret) <= qd.last.limit
        /\ Returned \subseteq StoredTexts
        /\ qd.points = {} => qd.last.ret = <<>>
        /\ qd.last.limit >= Cardinality(qd.points) => StoredTexts \subseteq Returned

\* ======================================================= directory ingestion
\* utils.py: ingest_from_directory lists the files that match the pattern and
\* calls ingest_from_file on each inside a try; ingest_from_file reads the
\* file, skips blank content, chunks on request and calls ingest.
MaxFiles == 3
\* What a matched path can be: a file with text, a file whose content is
\* blank after strip(), a file that cannot be read or decoded, a directory
\* whose name matches the pattern.
FileKinds == { "text", "blank", "unreadable", "directory" }
IngestOutcomes == { "ok", "fails" }
DirKinds == { "directory", "missing", "file" }

\* ingest_from_file, lines 54-92, for one path; iout is what ingest does when
\* it is called.  called: ingest was called with the content of the file;
\* ingested: it returned without an error.
IngestFromFile(kind, iout) ==
    IF kind = "directory"
    THEN [raised |-> "ValueError", called |-> FALSE, ingested |-> FALSE]
    ELSE IF kind = "unreadable"
    THEN [raised |-> "IngestionError", called |-> FALSE, ingested |-> FALSE]
    ELSE IF kind = "blank"
    THEN [raised |-> "none", called |-> FALSE, ingested |-> FALSE]
    ELSE IF iout # "ok"
    THEN [raised |-> "IngestionError", called |-> TRUE, ingested |-> FALSE]
    ELSE [raised |-> "none", called |-> TRUE, ingested |-> TRUE]

DirIdle ==
    [pc |-> "idle", files |-> <<>>, i |-> 0, success_count |-> 0,
     ingested |-> {}, visited |-> {}, raised |-> "none", result |-> 0]

DirOthers ==
    <<settings, graphInst, vecStore, graphDocs, pc, call, last, log,
      kg, chunker, groq, reg, qd, race, ctx>>

\* Lines 133-150: the checks of the path, the listing and the empty listing.
DirCall(dir, files) ==
    /\ dirs.pc = "idle"
    /\ dirs' =
         IF dir = "missing"
         THEN [DirIdle EXCEPT !.pc = "done", !.raised = "FileNotFoundError"]
         ELSE IF dir = "file"
         THEN [DirIdle EXCEPT !.pc = "done", !.raised = "ValueError"]
         ELSE IF files = <<>>
         THEN [DirIdle EXCEPT !.pc = "done", !.files = files, !.result = 0]
         ELSE [DirIdle EXCEPT !.pc = "loop", !.files = files, !.i = 1]
    /\ UNCHANGED DirOthers

\* Lines 156-168: one pass of the loop over the files.
DirIngestFile(iout) ==
    LET res == IngestFromFile(dirs.files[dirs.i], iout)
    IN  /\ dirs.pc = "loop"
        /\ dirs.i <= Len(dirs.files)
        /\ dirs' = [dirs EXCEPT
                      !.i = @ + 1,
                      !.visited = @ \cup { dirs.i },
                      !.ingested = IF res.ingested THEN @ \cup { dirs.i } ELSE @,
                      !.success_count = IF res.raised = "none" THEN @ + 1 ELSE @]
        /\ UNCHANGED DirOthers

\* Lines 170-171: return success_count.
DirExit ==
    /\ dirs.pc = "loop"
    /\ dirs.i > Len(dirs.files)
    /\ dirs' = [dirs EXCEPT !.pc = "done", !.result = dirs.success_count]
    /\ UNCHANGED DirOthers

DirReturn ==
    /\ dirs.pc = "done"
    /\ dirs' = DirIdle
    /\ UNCHANGED DirOthers

DirectoryInit ==
    /\ dirs = DirIdle
    /\ PipelineParked
    /\ reg = Parked
    /\ qd = Parked
    /\ race = Parked
    /\ ctx = Parked

DirectoryNext ==
    \/ \E dir \in DirKinds, files \in SeqsUpTo(FileKinds, MaxFiles) : DirCall(dir, files)
    \/ \E iout \in IngestOutcomes : DirIngestFile(iout)
    \/ DirExit
    \/ DirReturn

DirectorySpec == DirectoryInit /\ [][DirectoryNext]_allvars

\* ---------------------------------------------------------------- claim C23
\* C23: ingest_from_directory returns the number of files successfully
\* ingested.  When it returns, its result is the number of matched files
\* whose content was passed to ingest with ingest returning without error,
\* it lies between 0 and the number of matched files, and every matched file
\* was processed whatever happened to the files before it.
C23_CountsIngestedFiles ==
    (dirs.pc = "done" /\ dirs.raised = "none") =>
        /\ dirs.result = Cardinality(dirs.ingested)
        /\ dirs.result \in 0..Len(dirs.files)
        /\ dirs.visited = 1..Len(dirs.files)

\* ================================================= concurrent graph writers
\* Two add_document_to_graph calls, each in its own session, on documents
\* that name the same entities.  Every session.run is one auto-commit
\* transaction: the statements of the two calls interleave, each statement is
\* atomic, and timestamp() is the time at which it runs.  The uniqueness
\* constraint on Entity.id (lines 73-76) makes MERGE on the id find the node
\* another transaction has created.
Writers == 1..2
EntityIds == { "PERSON:Ada", "PERSON:Bob" }
Descriptions == { "d1", "d2" }
\* What a writer extracted: the ids of its entities in order, and one
\* relationship between two of them with its description.
WriterDocs ==
    { [entities |-> es, source |-> "PERSON:Ada", target |-> "PERSON:Bob",
       type |-> "KNOWS", description |-> d] :
        es \in { <<"PERSON:Ada", "PERSON:Bob">>, <<"PERSON:Bob", "PERSON:Ada">>,
                 <<"PERSON:Ada">> },
        d \in Descriptions }

\* CREATE instead of MERGE: a new node whatever the store holds.
MergeEntityAt_Create(nodes, id, now) ==
    nodes \cup { [key |-> now, id |-> id, created |-> now, last_seen |-> now] }

\* MERGE (e:Entity {id: $entity_id}) SET e.last_seen = timestamp()
\* ON CREATE SET e.created = timestamp(), run at time now: the nodes with the
\* id are updated, and one is created when there is none.
MergeEntityAt(nodes, id, now) ==
    IF \E n \in nodes : n.id = id
    THEN { IF n.id = id THEN [n EXCEPT !.last_seen = now] ELSE n : n \in nodes }
    ELSE nodes \cup { [key |-> now, id |-> id, created |-> now, last_seen |-> now] }

\* MATCH (source {id}) MATCH (target {id}) MERGE (source)-[r:RELATES_TO
\* {type}]->(target) SET r.description = $description, r.last_seen =
\* timestamp(), run at time now.
MergeEdgeAt(nodes, edges, src, tgt, type, description, now) ==
    IF ~(\E n \in nodes : n.id = src) \/ ~(\E n \in nodes : n.id = tgt) THEN edges
    ELSE IF \E e \in edges : e.src = src /\ e.tgt = tgt /\ e.type = type
    THEN { IF e.src = src /\ e.tgt = tgt /\ e.type = type
           THEN [e EXCEPT !.description = description, !.last_seen = now]
           ELSE e : e \in edges }
    ELSE edges \cup { [src |-> src, tgt |-> tgt, type |-> type,
                       description |-> description,
                       created |-> now, last_seen |-> now] }

\* merges is the history of the merge statements run so far, in order.
RaceStart(doc1, doc2) ==
    [pc |-> "run", clock |-> 0, nodes |-> {}, edges |-> {},
     writers |-> [w \in Writers |->
                    [pc |-> "entities", i |-> 1,
                     doc |-> IF w = 1 THEN doc1 ELSE doc2,
                     src |-> "none", tgt |-> "none"]],
     merges |-> <<>>]

RaceOthers ==
    <<settings, graphInst, vecStore, graphDocs, pc, call, last, log,
      kg, chunker, groq, reg, qd, dirs, ctx>>

\* Lines 185-205: writer w merges its next entity.
RaceMergeEntity(w) ==
    LET wr == race.writers[w]
        id == wr.doc.entities[wr.i]
        now == race.clock + 1
    IN  /\ race.pc = "run"
        /\ wr.pc = "entities"
        /\ wr.i <= Len(wr.doc.entities)
        /\ race' = [race EXCEPT
                      !.clock = now,
                      !.nodes = MergeEntityAt(race.nodes, id, now),
                      !.writers[w].i = wr.i + 1,
                      !.merges = Append(@, [writer |-> w, kind |-> "node", id |-> id,
                                            time |-> now, description |-> ""])]
        /\ UNCHANGED RaceOthers

\* Lines 208-227: the entities are done; the source name is looked up.
RaceResolveSource(w) ==
    LET wr == race.writers[w]
    IN  /\ race.pc = "run"
        /\ wr.pc = "entities"
        /\ wr.i > Len(wr.doc.entities)
        /\ race' = [race EXCEPT !.writers[w] =
                      IF \E n \in race.nodes : n.id = wr.doc.source
                      THEN [wr EXCEPT !.pc = "target", !.src = wr.doc.source]
                      ELSE [wr EXCEPT !.pc = "done"]]
        /\ UNCHANGED RaceOthers

\* Lines 229-238: the target name is looked up.
RaceResolveTarget(w) ==
    LET wr == race.writers[w]
    IN  /\ race.pc = "run"
        /\ wr.pc = "target"
        /\ race' = [race EXCEPT !.writers[w] =
                      IF \E n \in race.nodes : n.id = wr.doc.target
                      THEN [wr EXCEPT !.pc = "edge", !.tgt = wr.doc.target]
                      ELSE [wr EXCEPT !.pc = "done"]]
        /\ UNCHANGED RaceOthers

\* Lines 240-253: the relationship is merged.
RaceMergeEdge(w) ==
    LET wr == race.writers[w]
        now == race.clock + 1
    IN  /\ race.pc = "run"
        /\ wr.pc = "edge"
        /\ race' = [race EXCEPT
                      !.clock = now,
                      !.edges = MergeEdgeAt(race.nodes, race.edges, wr.src, wr.tgt,
                                            wr.doc.type, wr.doc.description, now),
                      !.writers[w].pc = "done",
                      !.merges = Append(@, [writer |-> w, kind |-> "edge",
                                            id |-> wr.src, time |-> now,
                                            description |-> wr.doc.description])]
        /\ UNCHANGED RaceOthers

RaceInit ==
    /\ race \in { RaceStart(d1, d2) : d1, d2 \in WriterDocs }
    /\ PipelineParked
    /\ reg = Parked
    /\ qd = Parked
    /\ dirs = Parked
    /\ ctx = Parked

RaceNext ==
    \/ \E w \in Writers : RaceMergeEntity(w)
    \/ \E w \in Writers : RaceResolveSource(w)
    \/ \E w \in Writers : RaceResolveTarget(w)
    \/ \E w \in Writers : RaceMergeEdge(w)

RaceSpec == RaceInit /\ [][RaceNext]_allvars

\* ---------------------------------------------------------------- claim C24
MergesOf(kind, id) ==
    { k \in 1..Len(race.merges) : race.merges[k].kind = kind /\ race.merges[k].id = id }
LastOf(S) == CHOOSE k \in S : \A j \in S : j <= k
MergersOf(kind, id) == { race.merges[k].writer : k \in MergesOf(kind, id) }

\* C24: under two concurrent add_document_to_graph calls that merge the same
\* entity id, in every interleaving there is exactly one node for the id and
\* its last_seen is the latest of the merge times, whichever writer was first;
\* the description of a merged edge is the one of the merge that ran last.
C24_ConcurrentMerges ==
    /\ \A id \in EntityIds :
          MergesOf("node", id) # {} =>
              /\ Cardinality({ n \in race.nodes : n.id = id }) = 1
              /\ \A n \in race.nodes :
                    n.id = id =>
                        /\ n.last_seen = race.merges[LastOf(MergesOf("node", id))].time
                        /\ \A k \in MergesOf("node", id) : race.merges[k].time <= n.last_seen
    /\ \A id \in EntityIds :
          MergesOf("edge", id) # {} =>
              /\ Cardinality(race.edges) = 1
              /\ \A e \in race.edges :
                    e.description = race.merges[LastOf(MergesOf("edge", id))].description

\* Both calls have returned after merging both entities and the edge; writer
\* 2 merged Ada first and writer 1 merged the edge last, with a description
\* other than writer 2's.
C24_Witness ==
    /\ \A w \in Writers : race.writers[w].pc = "done"
    /\ MergersOf("node", "PERSON:Ada") = Writers
    /\ MergersOf("edge", "PERSON:Ada") = Writers
    /\ race.merges[1].writer = 2
    /\ race.merges[Len(race.merges)].writer = 1
    /\ race.writers[1].doc.description # race.writers[2].doc.description
    /\ \E e \in race.edges : e.description = race.writers[1].doc.description

\* ===================================================== reading the graph
\* query_related_entities and get_graph_context on a connected store that
\* holds a graph, and HybridRetrievalStrategy.retrieve with a graph store
\* whose availability check can fail.
MaxEntities == 2
TOP_CANDIDATES == 3

\* The lower-case letters of the names and queries explored: toLower(...).
LowerChars(s) ==
    CASE s \in { "Ada", "ada" } -> <<"a", "d", "a">>
      [] s = "Adam" -> <<"a", "d", "a", "m">>
      [] s \in { "Bob", "bob", " Bob" } -> <<"b", "o", "b">>
      [] s = "Zed" -> <<"z", "e", "d">>
      [] s = "who" -> <<"w", "h", "o">>
      [] OTHER -> <<>>

\* s CONTAINS t
ContainsSeq(s, t) ==
    /\ Len(t) <= Len(s)
    /\ \E i \in 0..(Len(s) - Len(t)) : SubSeq(s, i + 1, i + Len(t)) = t

\* toLower(e.name) CONTAINS toLower($entity_name)
NameContains(name, cand) == ContainsSeq(LowerChars(name), LowerChars(cand))

StoredNodes == { Ent("Ada", "PERSON"), Ent("Adam", "PERSON"), Ent("Bob", "ORG") }
StoredEdges ==
    { [source |-> Ent("Ada", "PERSON"), target |-> Ent("Bob", "ORG"), type |-> "WORKS_AT"],
      [source |-> Ent("Adam", "PERSON"), target |-> Ent("Ada", "PERSON"), type |-> "KNOWS"] }
EdgesAmong(nodes) == { e \in StoredEdges : e.source \in nodes /\ e.target \in nodes }

\* The queries and what the LLM extracts from them.
QueryTexts == { "bob", "who" }
QueryContents ==
    { [entities |-> es, relationships |-> <<>>] :
        es \in { <<>>,
                 <<Ent("ada", "PERSON")>>,
                 <<Ent("Zed", "PERSON")>>,
                 <<Ent("", "PERSON")>>,
                 <<Ent("Zed", "PERSON"), Ent(" Bob", "ORG")>>,
                 <<Ent("Zed", "PERSON"), Ent("Zed", "ORG"), Ent("Zed", "OTHER"),
                   Ent("Bob", "ORG")>> } }
QueryResponses ==
    { <<"obj{entities,relationships}">>, <<"arr[entities,relationships]">>, <<"number">> }

Orders(S) ==
    { p \in [1..Cardinality(S) -> S] : \A i, j \in DOMAIN p : i # j => p[i] # p[j] }

\* OPTIONAL MATCH (e)-[r:RELATES_TO]-(related): the neighbours of n in either
\* direction.  No node of the graphs explored has more than three.
Relationships(n, edges) ==
    { [related |-> e.target.name, relation |-> e.type] : e \in { d \in edges : d.source = n } }
    \cup { [related |-> e.source.name, relation |-> e.type] : e \in { d \in edges : d.target = n } }

\* The records of the query for one candidate name: one per matching node,
\* at most limit of them; order is the order in which the database returns
\* the nodes.
Records(nodes, edges, cand, limit, order) ==
    LET hits == SelectSeq(order, LAMBDA n : n \in nodes /\ NameContains(n.name, cand))
    IN  [i \in 1..Min(limit, Len(hits)) |->
           [entity |-> hits[i].name, type |-> hits[i].type,
            relationships |-> Relationships(hits[i], edges)]]

RECURSIVE AllRecords(_, _, _, _, _)
AllRecords(nodes, edges, cands, limit, order) ==
    IF cands = <<>> THEN <<>>
    ELSE Records(nodes, edges, Head(cands), limit, order)
         \o AllRecords(nodes, edges, Tail(cands), limit, order)

\* The deduplication by (entity, type), keeping the first of each.
RECURSIVE Deduplicate(_, _)
Deduplicate(results, seen) ==
    IF results = <<>> THEN <<>>
    ELSE LET r == Head(results)
             key == <<r.entity, r.type>>
         IN  IF key \in seen THEN Deduplicate(Tail(results), seen)
             ELSE <<r>> \o Deduplicate(Tail(results), seen \cup { key })

\* query_related_entities, lines 275-330, on a connected store: ext is what
\* extract_entities_and_relationships did, dbout what the database does.
QueryRelatedEntities(nodes, edges, ext, query_text, limit, dbout, order) ==
    IF ext.raised # "none" \/ ext.value.type # "dict" THEN <<>>
    ELSE LET ents == ext.value.entities
             names == [i \in 1..Len(ents) |-> StripName(ents[i].name)]
             query_entities == IF names = <<>> THEN <<query_text>> ELSE names
             top == SubSeq(query_entities, 1, Min(TOP_CANDIDATES, Len(query_entities)))
             unique == Deduplicate(AllRecords(nodes, edges, top, limit, order), {})
         IN  IF dbout # "ok" THEN <<>>
             ELSE SubSeq(unique, 1, Min(limit, Len(unique)))

NoContext == [header |-> "", entities |-> <<>>]

\* get_graph_context, lines 343-370: "" without related entities, else the
\* header line followed by the entities and their relationships.
GraphContext(nodes, edges, ext, query_text, max_entities, dbout, order) ==
    LET related == QueryRelatedEntities(nodes, edges, ext, query_text, max_entities,
                                        dbout, order)
    IN  IF related = <<>> THEN NoContext
        ELSE [header |-> "Graph Context:", entities |-> related]

\* graph_store.is_available() of retrieval.py:75: it returns, or it raises
\* (the GraphStore class of graph/neo4j_store.py has no such method).
AvailabilityOutcomes == { "ok", "raises" }

\* HybridRetrievalStrategy.retrieve, lines 67-86, with the outcome of the
\* availability check.
HybridRetrieveChecked(store, gstore, limit, filt, vout, aout, gout) ==
    IF vout = "ok" /\ gstore # "None" /\ aout = "raises"
    THEN [raised |-> "AttributeError", docs |-> <<>>, events |-> <<"vec_search">>]
    ELSE HybridRetrieve(store, gstore, limit, filt, vout, gout)

CtxStores ==
    { <<>>, <<[text |-> "alpha", meta |-> "none"]>>,
      <<[text |-> "alpha", meta |-> "none"], [text |-> "alpha", meta |-> "m1"]>> }

CtxNoLast ==
    [op |-> "none", raised |-> "none", names |-> <<>>, query |-> "",
     max_entities |-> 0, context |-> NoContext,
     limit |-> 0, vout |-> "ok", aout |-> "ok", gout |-> "", gstore |-> "None",
     docs |-> <<>>]
CtxStart(nodes, store) ==
    [pc |-> "idle", nodes |-> nodes, edges |-> EdgesAmong(nodes), store |-> store,
     last |-> CtxNoLast]

CtxOthers ==
    <<settings, graphInst, vecStore, graphDocs, pc, call, last, log,
      kg, chunker, groq, reg, qd, dirs, race>>

\* get_graph_context(query, max_entities); names records the names that the
\* extraction handed back.
CtxGetGraphContext(llmOut, raw, content, query, max_entities, dbout) ==
    LET ext == Extract(llmOut, raw, content)
        ents == ext.value.entities
    IN  /\ ctx.pc = "idle"
        /\ \E order \in Orders(ctx.nodes) :
           ctx' = [ctx EXCEPT
                     !.pc = "returned",
                     !.last = [CtxNoLast EXCEPT
                                 !.op = "get_graph_context",
                                 !.names = IF ext.raised = "none" /\ ext.value.type = "dict"
                                           THEN [i \in 1..Len(ents) |-> StripName(ents[i].name)]
                                           ELSE <<>>,
                                 !.query = query,
                                 !.max_entities = max_entities,
                                 !.context = GraphContext(ctx.nodes, ctx.edges, ext, query,
                                                          max_entities, dbout, order)]]
        /\ UNCHANGED CtxOthers

\* HybridRetrievalStrategy.retrieve on the vector store of ctx.
CtxHybridRetrieve(gstore, limit, vout, aout, gout) ==
    LET res == HybridRetrieveChecked(ctx.store, gstore, limit, "None", vout, aout, gout)
    IN  /\ ctx.pc = "idle"
        /\ ctx' = [ctx EXCEPT
                     !.pc = "returned",
                     !.last = [CtxNoLast EXCEPT
                                 !.op = "retrieve", !.raised = res.raised,
                                 !.limit = limit, !.vout = vout, !.aout = aout,
                                 !.gout = gout, !.gstore = gstore, !.docs = res.docs]]
        /\ UNCHANGED CtxOthers

CtxReturn ==
    /\ ctx.pc = "returned"
    /\ ctx' = [ctx EXCEPT !.pc = "idle", !.last = CtxNoLast]
    /\ UNCHANGED CtxOthers

ContextInit ==
    /\ ctx \in { CtxStart(nodes, store) : nodes \in SUBSET StoredNodes, store \in CtxStores }
    /\ PipelineParked
    /\ reg = Parked
    /\ qd = Parked
    /\ dirs = Parked
    /\ race = Parked

ContextNext ==
    \/ \E llmOut \in ExtractLLMOutcomes, raw \in QueryResponses, content \in QueryContents,
          query \in QueryTexts, max_entities \in 1..MaxEntities, dbout \in DbOutcomes :
          CtxGetGraphContext(llmOut, raw, content, query, max_entities, dbout)
    \/ \E gstore \in { "None", "nodriver", "connected" }, limit \in 1..MaxChunks,
          vout \in VectorOutcomes, aout \in AvailabilityOutcomes, gout \in ContextOutcomes :
          CtxHybridRetrieve(gstore, limit, vout, aout, gout)
    \/ CtxReturn

ContextSpec == ContextInit /\ [][ContextNext]_allvars

\* ---------------------------------------------------------------- claim C25
\* C25: a failure raised by the graph store during Hybrid retrieval, by the
\* availability check or by get_graph_context, is swallowed: retrieve does
\* not raise and returns exactly the vector search results; a failure of the
\* vector search propagates out of retrieve.
C25_GraphFailuresSwallowed ==
    (ctx.pc = "returned" /\ ctx.last.op = "retrieve") =>
        /\ ctx.last.vout # "ok" => ctx.last.raised = "RetrievalError"
        /\ (/\ ctx.last.vout = "ok"
            /\ ctx.last.gstore # "None"
            /\ ctx.last.aout = "raises" \/ ctx.last.gout = "GraphError")
           => /\ ctx.last.raised = "none"
              /\ ctx.last.docs =
                    VectorOnlyRetrieve(ctx.store, ctx.last.limit, "None", "ok").docs

\* ---------------------------------------------------------------- claim C28
\* The candidate names of a query: the names extracted from it, or the query
\* itself when the extraction has no name to give.
Candidates ==
    LET named == SelectSeq(ctx.last.names, LAMBDA n : n # "")
    IN  IF named = <<>> THEN <<ctx.last.query>> ELSE named
TopCandidates == SubSeq(Candidates, 1, Min(TOP_CANDIDATES, Len(Candidates)))
Listed == ctx.last.context.entities

\* C28: get_graph_context never raises; it lists at most max_entities
\* entities, no two with the same name and type, each with a name that
\* contains one of the first 3 candidate names of the query; and it returns
\* the empty string when no stored entity name contains a candidate name.
C28_ContextOfCandidates ==
    (ctx.pc = "returned" /\ ctx.last.op = "get_graph_context") =>
        /\ ctx.last.raised = "none"
        /\ Len(Listed) <= ctx.last.max_entities
        /\ \A i, j \in 1..Len(Listed) :
              (Listed[i].entity = Listed[j].entity /\ Listed[i].type = Listed[j].type)
              => i = j
        /\ \A i \in 1..Len(Listed) :
              \E k \in 1..Len(TopCandidates) : NameContains(Listed[i].entity, TopCandidates[k])
        /\ (\A n \in ctx.nodes, k \in 1..Len(Candidates) : ~NameContains(n.name, Candidates[k]))
           => ctx.last.context = NoContext

\* ---------------------------------------------------------------- claim C26
\* A step of GraphSpec in which clear_graph of this client returns, or in
\* which another client clears the graph between two queries of a call.
ClearGraphStep ==
    \/ /\ kg.pc = "idle"
       /\ kg'.pc = "returned"
       /\ kg'.last.op = "clear_graph"
       /\ kg'.last.raised = "none"
    \/ /\ kg.pc # "idle"
       /\ kg'.pc = kg.pc /\ kg'.i = kg.i /\ kg'.j = kg.j
       /\ kg'.interleaved
\* A step in which add_document_to_graph runs one of its MERGE statements.
MergeStep == kg.pc \in { "entities", "edge" } /\ ~ClearGraphStep
GraphChanges == kg'.nodes # kg.nodes \/ kg'.edges # kg.edges
GraphKept == kg.nodes \subseteq kg'.nodes /\ kg.edges \subseteq kg'.edges

\* C26: the graph changes only in a MERGE of add_document_to_graph, which
\* keeps every node and edge, or in clear_graph; get_graph_context and every
\* other operation leave it as it is; nothing but clear_graph removes a node
\* or an edge, and after clear_graph the graph has no nodes and no edges.
C26_GraphLifecycleFrame ==
    [][ /\ GraphChanges => (MergeStep \/ ClearGraphStep)
        /\ MergeStep => GraphKept
        /\ ~GraphKept => ClearGraphStep
        /\ ClearGraphStep => (kg'.nodes = {} /\ kg'.edges = {}) ]_allvars

\* get_graph_context has returned on a graph with nodes and edges.
C26_Witness ==
    /\ kg.pc = "returned"
    /\ kg.last.op = "get_graph_context"
    /\ kg.last.raised = "none"
    /\ kg.nodes # {}
    /\ kg.edges # {}

\* ---------------------------------------------------------------- claim C30
\* The k-th window of the call gave a chunk that is returned.
ChunkReturned(k) == chunker.chunks[k].hi > chunker.chunks[k].lo
ReachesEnd(k) == chunker.windows[k].hi >= chunker.text.len
Inside(w, v) == v.lo <= w.lo /\ w.hi <= v.hi

\* C30: chunking emits no redundant trailing chunks.  Once a window reaches
\* the end of the text no further chunk is produced, so no returned chunk
\* has its window wholly inside the window of the chunk before it, and a
\* text that is not longer than the chunk size gives one window whatever
\* the overlap.
C30_NoRedundantTrailingChunks ==
    Chunked =>
        /\ \A k \in 1..(Len(chunker.windows) - 1) : ~ReachesEnd(k)
        /\ \A k \in 2..Len(chunker.windows) :
              (ChunkReturned(k - 1) /\ ChunkReturned(k))
              => ~Inside(chunker.windows[k], chunker.windows[k - 1])
        /\ (0 < chunker.text.len /\ chunker.text.len <= chunker.size)
           => Len(chunker.windows) = 1

====
